---- MODULE Spec2Model ----
(***************************************************************************)
(* A model of pybtrfs.mkfs (src/unnamed/part_002, the mkfs C extension):   *)
(* the per-device preparation workers, the staged construction of the      *)
(* filesystem inside transactions, and the clean-up on every exit path.    *)
(* Calls into the vendored btrfs-progs library are environment steps: each *)
(* returns one of the results its call site distinguishes.                 *)
(***************************************************************************)
EXTENDS Integers, Sequences, FiniteSets, Bags, TLC

\* ---------------------------------------------------------------- bounds
\* Largest number of device paths handed to one mkfs call.
MaxDev == 2
\* The same, for the runs that vary only the devices (SpecDevices).
MaxPrepDev == 3

\* ------------------------------------------------------- program constants
ENOMEM == 12
EINVAL == 22
ENOSPC == 28
EIO == 5
EAGAIN == 11
\* Size of the superblock's label field, and of an unparsed UUID with its NUL.
BTRFS_LABEL_SIZE == 256
BTRFS_UUID_UNPARSED_SIZE == 37
\* Size of every backing device, in model units.
DevSize == 3
\* BTRFS_MKFS_SYSTEM_GROUP_SIZE, in model units.
SystemGroupSize == 1
\* fs_info->zone_size of a zoned file system, in model units.
ZoneSize == 2

\* A u64 flag word is the set of its bits.
DATA == "DATA"
SYSTEM == "SYSTEM"
METADATA == "METADATA"
METADATA_REMAP == "METADATA_REMAP"
RAID1 == "RAID1"
DUP == "DUP"
RAID0 == "RAID0"
BTRFS_BLOCK_GROUP_TYPE_MASK == {DATA, SYSTEM, METADATA}
BTRFS_BLOCK_GROUP_PROFILE_MASK == {RAID0, RAID1, DUP}
BTRFS_MKFS_DEFAULT_META_MULTI_DEVICE == {RAID1}
BTRFS_MKFS_DEFAULT_META_ONE_DEVICE == {DUP}
BTRFS_MKFS_DEFAULT_DATA_MULTI_DEVICE == {}

MIXED_GROUPS == "MIXED_GROUPS"
RAID_STRIPE_TREE == "RAID_STRIPE_TREE"
REMAP_TREE == "REMAP_TREE"
EXTENT_TREE_V2 == "EXTENT_TREE_V2"
ZONED == "ZONED"

\* ------------------------------------------------------------------ state
VARIABLES
  args,        \* the call's arguments (immutable)
  probed,      \* device paths test_dev_for_mkfs has probed
  fs_uuid,     \* pybtrfs_mkfs's fs_uuid buffer, as a string
  gil,         \* the interpreter lock as the calling thread holds it
  peer,        \* a second mkfs call of the same process, on other devices
  it,          \* a SubvolumeIterator object and its underlying iterator
  pc,          \* position of the calling thread inside pybtrfs_mkfs
  i,           \* loop index of the calling thread
  j,           \* inner loop index of the thread-creation error path
  ret,         \* pybtrfs_mkfs's ret
  close_ret,   \* pybtrfs_mkfs's close_ret
  ctx,         \* prepare_ctx[]: one record per device
  wpc,         \* position of each preparation worker
  joined,      \* workers the calling thread has pthread_join'ed
  closeCount,  \* close() calls issued by mkfs, per descriptor value
  reads,       \* log of the calling thread's reads of prepare_ctx[]
  fs,          \* the filesystem being built (fs_info and what is on disk)
  allocation,  \* struct mkfs_allocation
  openTrans,   \* transactions started and neither committed nor aborted
  pending,     \* mutations made inside the open transaction(s)
  committed,   \* the committed transactions, oldest first
  key,         \* cleanup_temp_chunks: key.objectid of the scan
  cleanErr,    \* cleanup_temp_chunks: ret when the scan left its loop
  entered,     \* the stages entered so far, in order
  failed,      \* the stage that took an error exit, and its code
  outcome      \* what the call hands back to Python

vars == <<args, probed, fs_uuid, gil, peer, it, pc, i, j, ret, close_ret, ctx, wpc, joined, closeCount, reads,
          fs, allocation, openTrans, pending, committed, key, cleanErr,
          entered, failed, outcome>>

\* ---------------------------------------------------------------- helpers
Devs == 0 .. (args.n - 1)
Min(a, b) == IF a < b THEN a ELSE b
Range(s) == {s[k] : k \in 1 .. Len(s)}
Last(s) == s[Len(s)]

\* The descriptor open() hands out: the lowest number that is not open (0, 1
\* and 2 are the standard streams).  With the contexts c and the close counts
\* cc, a number is open when more workers got it than close() calls named it.
IsOpenFd(c, cc, f) == Cardinality({w \in DOMAIN c : c[w].fd = f}) > cc[f]
OpenFd(c, cc) ==
  CHOOSE f \in 3 .. (2 + Cardinality(DOMAIN c)) :
    /\ ~IsOpenFd(c, cc, f)
    /\ \A g \in 3 .. (f - 1) : IsOpenFd(c, cc, g)
FdValues == {-1, 0} \cup (3 .. (args.n + 2))

\* Results the library calls can hand back at their call sites.
StartTransResults == {0, -ENOMEM}
CommitResults == {0, -EIO}
AllocChunkResults == {0, -ENOSPC, -ENOMEM}
MakeBlockGroupResults == {0, -EIO}
TreeOpResults == {0, -EIO}
CloseCtreeResults == {0, -EIO}
ChunkSizes == {2}

\* ------------------------------------------------------ strings and UUIDs
\* A C string is the sequence of its characters; Ord is the ASCII code of
\* the characters the inputs are written with.
Ord(c) ==
  CASE c = " " -> 32 [] c = "-" -> 45 [] c = "/" -> 47 [] c = "0" -> 48
    [] c = "4" -> 52 [] c = "5" -> 53 [] c = "9" -> 57 [] c = ":" -> 58 [] c = "@" -> 64
    [] c = "A" -> 65 [] c = "C" -> 67 [] c = "F" -> 70 [] c = "G" -> 71
    [] c = "_" -> 95 [] c = "a" -> 97 [] c = "c" -> 99 [] c = "f" -> 102
    [] c = "g" -> 103
Alphabet ==
  {" ", "-", "/", "0", "4", "5", "9", ":", "@", "A", "C", "F", "G", "_", "a", "c",
   "f", "g"}

\* hex_nibble without the range 'A'..'F'.
hex_nibble_NoUpper(c) ==
  IF Ord(c) >= Ord("0") /\ Ord(c) <= Ord("9") THEN Ord(c) - Ord("0")
  ELSE IF Ord(c) >= Ord("a") /\ Ord(c) <= Ord("f") THEN Ord(c) - Ord("a") + 10
  ELSE -1

\* hex_nibble: the value of a hexadecimal digit, -1 for any other character.
hex_nibble(c) ==
  IF Ord(c) >= Ord("0") /\ Ord(c) <= Ord("9") THEN Ord(c) - Ord("0")
  ELSE IF Ord(c) >= Ord("a") /\ Ord(c) <= Ord("f") THEN Ord(c) - Ord("a") + 10
  ELSE IF Ord(c) >= Ord("A") /\ Ord(c) <= Ord("F") THEN Ord(c) - Ord("A") + 10
  ELSE -1

\* The positions (from 0) at which uuid_parse wants a dash.
DashAt(k) == k = 8 \/ k = 13 \/ k = 18 \/ k = 23

\* The loop of uuid_parse from index k (from 0) with the bytes uu so far.
RECURSIVE uuid_parse_loop(_, _, _)
uuid_parse_loop(in, k, uu) ==
  IF k >= 36 THEN [ret |-> 0, uu |-> uu]
  ELSE IF DashAt(k) THEN uuid_parse_loop(in, k + 1, uu)
  ELSE LET hi == hex_nibble(in[k + 1])
           k1 == k + 1
           k2 == IF DashAt(k1) THEN k1 + 1 ELSE k1
           lo == hex_nibble(in[k2 + 1])
       IN IF hi < 0 \/ lo < 0 THEN [ret |-> -1, uu |-> uu]
          ELSE uuid_parse_loop(in, k2 + 1, Append(uu, (hi * 16 + lo) % 256))

\* uuid_parse(in, uu): ret is 0 on acceptance, uu the 16 bytes.
uuid_parse(in) ==
  IF Len(in) # 36 THEN [ret |-> -1, uu |-> <<>>]
  ELSE IF in[9] # "-" \/ in[14] # "-" \/ in[19] # "-" \/ in[24] # "-"
       THEN [ret |-> -1, uu |-> <<>>]
       ELSE uuid_parse_loop(in, 0, <<>>)

\* strncpy that copies one character less.
strncpy_Short(src, n) == SubSeq(src, 1, Min(Len(src), n - 1))

\* strncpy(dst, src, n) into a zeroed buffer: at most n characters of src.
strncpy(src, n) == SubSeq(src, 1, Min(Len(src), n))

\* A well-formed UUID string in mixed case, and the strings made from it by
\* putting another character at one position or by changing its length.
BaseUuid ==
  <<"0", "9", "a", "f", "A", "F", "5", "c", "-", "0", "9", "a", "f", "-",
    "A", "F", "5", "C", "-", "c", "0", "9", "a", "-", "f", "A", "F", "5",
    "c", "0", "9", "a", "f", "A", "F", "5">>
EditedPositions == {1, 8, 9, 10, 14, 19, 23, 24, 36}
UuidInputs ==
  {<<>>, BaseUuid, SubSeq(BaseUuid, 1, 35), Append(BaseUuid, "0")}
    \cup {[BaseUuid EXCEPT ![q] = c] : q \in EditedPositions, c \in Alphabet}
\* The string uuid_unparse writes for the UUID make_btrfs generates.
GeneratedUuid ==
  <<"5", "5", "5", "5", "5", "5", "5", "5", "-", "5", "5", "5", "5", "-",
    "4", "5", "5", "5", "-", "a", "5", "5", "5", "-", "5", "5", "5", "5",
    "5", "5", "5", "5", "5", "5", "5", "5">>

\* Flag words of the arguments: profiles given by the caller.
\* metadata_profile is a signed word: negative means "choose for me".
MetadataProfileArgs == {[neg |-> TRUE, bits |-> {}], [neg |-> FALSE, bits |-> {}]}
DataProfileArgs == {{}, {RAID1}}
FeatureArgs == SUBSET {RAID_STRIPE_TREE, REMAP_TREE, EXTENT_TREE_V2, ZONED}
AllTrees == {RAID_STRIPE_TREE, REMAP_TREE, EXTENT_TREE_V2}
ByteCountArgs == {0, DevSize - 1, DevSize + 1}

\* Which backing device each path names: every path a device of its own, or
\* the last path the device of the first path once more.
Underlyings(n) ==
  {[d \in 0 .. (n - 1) |-> d],
   [d \in 0 .. (n - 1) |-> IF d = n - 1 THEN 0 ELSE d]}
Distinct(n) == [d \in 0 .. (n - 1) |-> d]

\* What each positional argument is: a str, a str that has no UTF-8 encoding
\* (it holds a lone surrogate), or another object.
ItemKinds(n) == [0 .. (n - 1) -> {"str", "surrogate", "int"}]
AllStr(n) == [d \in 0 .. (n - 1) |-> "str"]
LabelLengths == {0, BTRFS_LABEL_SIZE - 1, BTRFS_LABEL_SIZE}

\* What PyArg_ParseTupleAndKeywords makes of the keyword arguments: it takes
\* them, or it refuses them for a name that is not in kwlist or a value of
\* the wrong type, for a string with a NUL in it, for a csum_type beyond an
\* int, or for a string that has no UTF-8 encoding.
KeywordArgs == {"ok", "unknown", "embedded_null", "overflow", "surrogate"}
KeywordError(k) ==
  CASE k = "unknown" -> "TypeError"
    [] k = "embedded_null" -> "ValueError"
    [] k = "overflow" -> "OverflowError"
    [] k = "surrogate" -> "UnicodeEncodeError"

\* "unsigned int nodesize = 16384; unsigned int sectorsize = 4096;" and the
\* page size sysconf(_SC_PAGE_SIZE) reports.
DefaultNodesize == 16384
DefaultSectorsize == 4096
PageSize == 4096

\* How many of the optional arguments of a call are given a value other than
\* their default.
Departures(a) ==
  (IF a.mixed THEN 1 ELSE 0) + (IF a.features_arg # {} THEN 1 ELSE 0)
    + (IF a.keywords # "ok" THEN 1 ELSE 0)
    + (IF a.byte_count # 0 THEN 1 ELSE 0)
    + (IF a.metadata_profile.neg THEN 0 ELSE 1)
    + (IF a.data_profile # {} THEN 1 ELSE 0)

\* Calls that differ in the features, sizes and profiles asked for: the call
\* with every optional argument at its default, and the calls that give one
\* of them another value; the features are asked for one at a time or the
\* three trees together, the ZONED bit on its own.  The force
\* flag only decides whether the devices are tested; the calls below vary it.
ArgSets ==
  {a \in [n : 1 .. MaxDev, under : UNION {Underlyings(n) : n \in 1 .. MaxDev},
          items : {AllStr(n) : n \in 1 .. MaxDev}, label_len : {0},
          uuid : {<<>>}, signature : {FALSE}, keywords : KeywordArgs,
          force : {FALSE}, mixed : BOOLEAN, features_arg : FeatureArgs,
          byte_count : ByteCountArgs, metadata_profile : MetadataProfileArgs,
          data_profile : DataProfileArgs,
          nodesize : {DefaultNodesize}, sectorsize : {DefaultSectorsize}] :
     /\ a.under \in Underlyings(a.n)
     /\ a.items = AllStr(a.n)
     /\ Departures(a) <= 1
     /\ ZONED \in a.features_arg => a.features_arg = {ZONED}
     /\ Cardinality(a.features_arg) # 2}

\* Calls that differ only in their devices: more paths, every feature on.
DeviceArgSets ==
  {a \in [n : 1 .. MaxPrepDev,
          under : UNION {Underlyings(n) : n \in 1 .. MaxPrepDev},
          items : {AllStr(n) : n \in 1 .. MaxPrepDev}, label_len : {0},
          uuid : {<<>>}, signature : {FALSE}, keywords : KeywordArgs,
          force : {TRUE}, mixed : {FALSE},
          features_arg : {AllTrees},
          byte_count : {0}, metadata_profile : {[neg |-> TRUE, bits |-> {}]},
          data_profile : {{RAID1}},
          nodesize : {DefaultNodesize}, sectorsize : {DefaultSectorsize}] :
     /\ a.under \in Underlyings(a.n)
     /\ a.items = AllStr(a.n)
     /\ a.keywords # "ok" => a.n = 1}

\* Calls that differ in what the argument checks look at: the number and the
\* kind of the positional arguments, the label, the UUID, the force flag and
\* whether the first device already carries a filesystem signature.  Every
\* combination that a check refuses is there; of the calls that pass the
\* checks, those that depart from the plain call in the label, in the UUID,
\* in the test of the devices or in the features.
CheckedArgSets ==
  {a \in [n : 0 .. MaxDev,
          under : {<<>>} \cup {Distinct(n) : n \in 1 .. MaxDev},
          items : UNION {ItemKinds(n) : n \in 0 .. MaxDev},
          label_len : LabelLengths,
          uuid : {<<>>, BaseUuid, SubSeq(BaseUuid, 1, 35)},
          signature : BOOLEAN, force : BOOLEAN, mixed : {FALSE},
          keywords : KeywordArgs, features_arg : {{}, AllTrees},
          byte_count : {0}, metadata_profile : {[neg |-> TRUE, bits |-> {}]},
          data_profile : {{}},
          nodesize : {DefaultNodesize}, sectorsize : {DefaultSectorsize}] :
     /\ DOMAIN a.items = 0 .. (a.n - 1)
     /\ a.under = IF a.n = 0 THEN <<>> ELSE Distinct(a.n)
     /\ a.keywords # "ok" =>
          ~a.signature /\ ~a.force /\ a.features_arg = {}
     /\ \/ a.label_len = BTRFS_LABEL_SIZE
        \/ Len(a.uuid) = 35
        \/ \E d \in DOMAIN a.items : a.items[d] # "str"
        \/ (IF a.label_len # 0 THEN 1 ELSE 0) + (IF a.uuid # <<>> THEN 1 ELSE 0)
             + (IF a.signature \/ a.force THEN 1 ELSE 0)
             + (IF a.features_arg # {} THEN 1 ELSE 0) <= 1}

\* Calls that differ in the profiles asked for: every metadata and data
\* profile word against mixed mode and the device count, and the features
\* against mixed mode and the device count.  The words are not validated, so
\* one of them carries a type bit.
ProfileArgSets ==
  {a \in [n : 1 .. MaxDev, under : {Distinct(n) : n \in 1 .. MaxDev},
          items : {AllStr(n) : n \in 1 .. MaxDev}, label_len : {0},
          uuid : {<<>>}, signature : {FALSE}, force : {TRUE},
          mixed : BOOLEAN, keywords : KeywordArgs,
          features_arg : {{}, AllTrees, AllTrees \cup {ZONED}},
          byte_count : {0},
          metadata_profile : MetadataProfileArgs \cup
                             {[neg |-> FALSE, bits |-> {RAID1}],
                              [neg |-> FALSE, bits |-> {DUP}],
                              [neg |-> FALSE, bits |-> {DATA, RAID1}]},
          data_profile : DataProfileArgs,
          nodesize : {DefaultNodesize}, sectorsize : {DefaultSectorsize}] :
     /\ a.under = Distinct(a.n)
     /\ a.items = AllStr(a.n)
     /\ a.features_arg # {} => a.metadata_profile.neg /\ a.data_profile = {}
     /\ a.keywords # "ok" =>
          /\ a.n = 1 /\ ~a.mixed /\ a.features_arg = {}
          /\ a.metadata_profile.neg /\ a.data_profile = {}}

\* The calls of ProfileArgSets that differ in which groups are made: a final
\* metadata group, a final data group, both or none, apart or mixed, and on
\* one device the groups of the features.  The groups depend on the device
\* count only through the default profiles, which one and two devices show.
ScanArgSets ==
  {a \in ProfileArgSets :
     /\ a.n <= 2
     /\ a.features_arg # {} => ~a.mixed /\ a.n = 1
     /\ ZONED \notin a.features_arg
     /\ a.data_profile \in DataProfileArgs
     /\ a.metadata_profile \in
          MetadataProfileArgs \cup {[neg |-> FALSE, bits |-> {RAID1}]}}

\* Calls on one device that differ only in the UUID string.
UuidArgSets ==
  [n : {1}, under : Underlyings(1), items : {AllStr(1)}, label_len : {0},
   uuid : UuidInputs, signature : {FALSE}, force : {TRUE}, mixed : {FALSE},
   keywords : {"ok"}, features_arg : {{}}, byte_count : {0},
   metadata_profile : {[neg |-> TRUE, bits |-> {}]}, data_profile : {{}},
          nodesize : {DefaultNodesize}, sectorsize : {DefaultSectorsize}]

\* Calls on one device that differ in the node size and in mixed mode.
NodesizeArgSets ==
  [n : {1}, under : Underlyings(1), items : {AllStr(1)}, label_len : {0},
   uuid : {<<>>}, signature : {FALSE}, force : {TRUE}, mixed : BOOLEAN,
   keywords : {"ok"}, features_arg : {{}}, byte_count : {0},
   metadata_profile : {[neg |-> TRUE, bits |-> {}]}, data_profile : {{}},
   nodesize : {PageSize, DefaultNodesize}, sectorsize : {DefaultSectorsize}]

\* meta_profile without the test of mixed.
meta_profile_IgnoreMixed ==
  IF args.metadata_profile.neg
  THEN IF args.n > 1 THEN BTRFS_MKFS_DEFAULT_META_MULTI_DEVICE
                     ELSE BTRFS_MKFS_DEFAULT_META_ONE_DEVICE
  ELSE args.metadata_profile.bits

\* pybtrfs_mkfs, "Auto-select metadata profile based on device count".
meta_profile ==
  IF args.metadata_profile.neg
  THEN IF ~args.mixed
       THEN IF args.n > 1 THEN BTRFS_MKFS_DEFAULT_META_MULTI_DEVICE
                          ELSE BTRFS_MKFS_DEFAULT_META_ONE_DEVICE
       ELSE {}
  ELSE args.metadata_profile.bits

data_prof ==
  IF ~args.mixed /\ args.data_profile = {} /\ args.n > 1
  THEN BTRFS_MKFS_DEFAULT_DATA_MULTI_DEVICE
  ELSE args.data_profile

\* BIG_METADATA is decided on the node size as passed in.
BIG_METADATA == "BIG_METADATA"
BigMetadata(nodesize) ==
  IF nodesize > PageSize THEN {BIG_METADATA} ELSE {}

incompat_flags ==
  args.features_arg \cup (IF args.mixed THEN {MIXED_GROUPS} ELSE {})
    \cup BigMetadata(args.nodesize)

\* "if (mixed && nodesize != sectorsize) nodesize = sectorsize", then
\* mkfs_cfg.nodesize = nodesize.
mkfs_cfg_nodesize ==
  IF args.mixed /\ args.nodesize # args.sectorsize
  THEN args.sectorsize ELSE args.nodesize

\* ------------------------------------------------------- trees and leaves
\* The trees recow_roots can walk; the last three stand for the global roots
\* (extent, checksum and free-space tree).
global_roots_tree == {"extent", "csum", "free_space"}
TreeNames ==
  {"fs", "tree_root", "chunk", "dev", "block_group", "stripe"}
    \cup global_roots_tree

\* Every tree that exists is held in LeavesPerTree leaves.
LeavesPerTree == 2
NoLeaves == [t \in TreeNames |-> <<>>]

\* The generations of a tree's leaves, in key order, when every leaf was
\* last written in transaction 1 (make_btrfs) or in transaction g.
LeafPatterns(g) == [1 .. LeavesPerTree -> {1, g}]

\* mkfs_features starts from btrfs_mkfs_default_features and only its
\* incompat word is changed afterwards; the defaults are taken with the
\* block-group tree enabled.
BLOCK_GROUP_TREE == "BLOCK_GROUP_TREE"
compat_ro_flags == {BLOCK_GROUP_TREE}

\* The trees present: the block-group tree and the raid-stripe tree exist
\* only with their feature.
PresentTrees ==
  (TreeNames \ {"block_group", "stripe"})
    \cup (IF BLOCK_GROUP_TREE \in compat_ro_flags THEN {"block_group"} ELSE {})
    \cup (IF RAID_STRIPE_TREE \in incompat_flags THEN {"stripe"} ELSE {})

\* What the transactions up to generation g can have left behind: the fs
\* tree, the chunk tree, the extent tree and the raid-stripe tree carry one
\* pattern, the other trees the same pattern one leaf further.
RotatePattern(p) == [k \in DOMAIN p |-> p[(k % Len(p)) + 1]]
LeafLayouts(g) ==
  {[t \in TreeNames |->
      IF t \notin PresentTrees THEN <<>>
      ELSE IF t \in {"fs", "chunk", "extent", "stripe"} THEN p
      ELSE RotatePattern(p)] :
   p \in LeafPatterns(g)}

\* The stages of one mkfs run, in the order the control flow names them.
StageOrder ==
  <<"validate", "prepare", "make_btrfs", "metadata", "stripe_root",
    "remap_root", "data_rootdir", "attach", "raid_groups", "commit_recow",
    "data_reloc", "uuid", "cleanup", "finalize">>
Rank(s) == CHOOSE k \in 1 .. Len(StageOrder) : StageOrder[k] = s
NoFailure == [stage |-> "none", code |-> 0, at |-> "none"]

\* The workers created so far and not yet joined by the calling thread.
Unjoined == {w \in Devs : wpc[w] # "idle"} \ joined
\* A read of one field of prepare_ctx[w] by the calling thread.
ReadCtx(w, f) == [ctx |-> w, field |-> f, unjoined |-> Unjoined]

\* Variable groups.
avars == <<probed, fs_uuid, gil, peer, it>>
wvars == <<ctx, wpc>>
mvars == <<joined, closeCount, reads>>
fvars == <<fs, allocation>>
tvars == <<openTrans, pending, committed>>
cvars == <<key, cleanErr>>

\* A failing call: ret takes its code and control jumps to an exit label.
Fail(stage, code, target) ==
  /\ ret' = code
  /\ failed' = [stage |-> stage, code |-> code, at |-> pc]
  /\ pc' = target

Enter(stage) == entered' = Append(entered, stage)

\* ------------------------------------------------------------------- Init
InitSession(a, phase) ==
  /\ args = a
  /\ probed = {}
  /\ fs_uuid = <<>>
  /\ gil = [held |-> TRUE, releases |-> 0, acquires |-> 0,
            api_unlocked |-> FALSE]
  /\ peer = [state |-> "absent", fds_open |-> FALSE, outcome |-> "none"]
  /\ it = [phase |-> phase, iter |-> 0, info_flag |-> FALSE, made |-> 0,
           dead |-> {}, destroys |-> 0, dead_use |-> FALSE,
           null_use |-> FALSE, in_init |-> 0, init_ok |-> 0, init_err |-> 0,
           next_wait |-> 0, in_next |-> EmptyBag, next_back |-> 0,
           reinit |-> FALSE, overlap |-> FALSE, op |-> "none",
           result |-> "none"]
  /\ pc = "parse"
  /\ i = 0
  /\ j = 0
  /\ ret = 0
  /\ close_ret = 0
  /\ ctx = [d \in Devs |-> [fd |-> 0, ret |-> 0, dev_byte_count |-> 0]]
  /\ wpc = [d \in Devs |-> "idle"]
  /\ joined = {}
  /\ closeCount = [f \in FdValues |-> 0]
  /\ reads = {}
  /\ fs = [superblock |-> FALSE, uuid_in |-> <<>>, uuid |-> <<>>,
           open |-> FALSE, devices |-> <<>>,
           add_calls |-> {}, bgs |-> {}, roots |-> {}, sb_remap_root |-> FALSE,
           leaves |-> NoLeaves,
           zoned |-> FALSE, zone_size |-> 0,
           system_allocs |-> 0, nodesize |-> 0, features |-> {},
           finalize_on_close |-> 0, total_bytes |-> 0, closed |-> FALSE]
  /\ allocation = [data |-> 0, metadata |-> 0, mixed |-> 0, system |-> 0,
                   remap |-> 0]
  /\ openTrans = 0
  /\ pending = {}
  /\ committed = <<>>
  /\ key = 0
  /\ cleanErr = 0
  /\ entered = <<>>
  /\ failed = NoFailure
  /\ outcome = [kind |-> "none", errno |-> 0, uuid |-> <<>>, num_bytes |-> 0]

\* A session calls mkfs, and then there is no SubvolumeIterator object, or it
\* works with one SubvolumeIterator, which takes nothing from the arguments
\* of mkfs.
InitState(a) == InitSession(a, "absent")
InitIterator(S) ==
  InitSession(CHOOSE a \in S : a.n = 1 /\ a.keywords = "ok", "unborn")

Init == (\E a \in ArgSets : InitState(a)) \/ InitIterator(ArgSets)
InitDevices ==
  (\E a \in DeviceArgSets : InitState(a)) \/ InitIterator(DeviceArgSets)
InitProfiles ==
  (\E a \in ProfileArgSets : InitState(a)) \/ InitIterator(ProfileArgSets)
InitScan == (\E a \in ScanArgSets : InitState(a)) \/ InitIterator(ScanArgSets)
InitChecked ==
  \/ \E a \in CheckedArgSets \cup UuidArgSets \cup NodesizeArgSets :
       InitState(a)
  \/ InitIterator(NodesizeArgSets)

\* ------------------------------------------------------ argument checks
\* "return NULL" with a Python exception set, before any work is done.
\* Py_BEGIN_ALLOW_THREADS, Py_END_ALLOW_THREADS, and a call of the Python
\* object API, which needs the lock.
AllowThreads(g) == [g EXCEPT !.held = FALSE, !.releases = @ + 1]
KeepReleased(g) == g
EndAllowThreads(g) == [g EXCEPT !.held = TRUE, !.acquires = @ + 1]
PyApi(g) == [g EXCEPT !.api_unlocked = @ \/ ~g.held]

\* "Extract device paths": the first argument that PyUnicode_Check refuses
\* ends the call with TypeError, the first str that PyUnicode_AsUTF8 cannot
\* encode with the UnicodeEncodeError it has set.
PathsError(a) ==
  IF \A d \in 0 .. (a.n - 1) : a.items[d] = "str" THEN "none"
  ELSE LET d == CHOOSE e \in 0 .. (a.n - 1) :
                  /\ a.items[e] # "str"
                  /\ \A f \in 0 .. (e - 1) : a.items[f] = "str"
       IN IF a.items[d] = "int" THEN "TypeError" ELSE "UnicodeEncodeError"

Reject(kind) ==
  /\ pc' = "rejected"
  /\ outcome' = [outcome EXCEPT !.kind = kind]
  /\ gil' = PyApi(gil)
  /\ UNCHANGED <<fs_uuid, entered>>

\* "if (!empty_tuple) return NULL;" with the MemoryError PyTuple_New has
\* set, and "if (!parse_ok) return NULL;" with the exception
\* PyArg_ParseTupleAndKeywords has set: the call ends before it looks at the
\* devices.
Refuse(kind) ==
  /\ pc' = "refused"
  /\ outcome' = [outcome EXCEPT !.kind = kind]
  /\ gil' = PyApi(gil)
  /\ UNCHANGED <<fs_uuid, entered>>

\* "if (!device_paths) return PyErr_NoMemory();": calloc of the path array
\* returned NULL.
NoMemory ==
  /\ pc' = "no_memory"
  /\ outcome' = [outcome EXCEPT !.kind = "MemoryError"]
  /\ gil' = PyApi(gil)
  /\ UNCHANGED <<fs_uuid, entered>>

\* ParseArgs without the label length check.
ParseArgs_NoLabelCheck ==
  /\ pc = "parse"
  /\ it.phase = "absent"
  /\ \/ Refuse("MemoryError")
     \/ IF args.keywords # "ok" THEN Refuse(KeywordError(args.keywords))
        ELSE IF args.n < 1 THEN Reject("ValueError")
        ELSE
          \/ NoMemory
          \/ IF PathsError(args) # "none" THEN Reject(PathsError(args))
             ELSE IF args.uuid # <<>> /\ uuid_parse(args.uuid).ret # 0
             THEN Reject("ValueError")
             ELSE /\ fs_uuid' = IF args.uuid # <<>>
                                THEN strncpy(args.uuid,
                                             BTRFS_UUID_UNPARSED_SIZE - 1)
                                ELSE <<>>
                  /\ gil' = AllowThreads(PyApi(gil))
                  /\ Enter("validate")
                  /\ pc' = "validate"
                  /\ UNCHANGED outcome
  /\ UNCHANGED <<args, probed, peer, it, i, j, ret, close_ret, wvars, mvars,
                 fvars, tvars, cvars, failed>>

\* pybtrfs_mkfs from its entry to Py_BEGIN_ALLOW_THREADS: the empty tuple,
\* the parsing of the keyword arguments, then the checks of the device
\* count, the allocation of the path array, device paths, label length, UUID.
ParseArgs ==
  /\ pc = "parse"
  /\ it.phase = "absent"
  /\ \/ Refuse("MemoryError")
     \/ IF args.keywords # "ok" THEN Refuse(KeywordError(args.keywords))
        ELSE IF args.n < 1 THEN Reject("ValueError")
        ELSE
          \/ NoMemory
          \/ IF PathsError(args) # "none" THEN Reject(PathsError(args))
             ELSE IF args.label_len >= BTRFS_LABEL_SIZE
             THEN Reject("ValueError")
             ELSE IF args.uuid # <<>> /\ uuid_parse(args.uuid).ret # 0
             THEN Reject("ValueError")
             ELSE /\ fs_uuid' = IF args.uuid # <<>>
                                THEN strncpy(args.uuid,
                                             BTRFS_UUID_UNPARSED_SIZE - 1)
                                ELSE <<>>
                  /\ gil' = AllowThreads(PyApi(gil))
                  /\ Enter("validate")
                  /\ pc' = "validate"
                  /\ UNCHANGED outcome
  /\ UNCHANGED <<args, probed, peer, it, i, j, ret, close_ret, wvars, mvars,
                 fvars, tvars, cvars, failed>>

\* ------------------------------------------------- preparation workers
\* prepare_one_device, first half: open the device.
WorkerOpen(w) ==
  /\ wpc[w] = "open"
  /\ \/ /\ ctx' = [ctx EXCEPT ![w].fd = OpenFd(ctx, closeCount)]
        /\ wpc' = [wpc EXCEPT ![w] = "prepare"]
     \/ /\ ctx' = [ctx EXCEPT ![w].fd = -1, ![w].ret = -EIO]
        /\ wpc' = [wpc EXCEPT ![w] = "exited"]
  /\ UNCHANGED <<args, avars, pc, i, j, ret, close_ret, mvars, fvars, tvars, cvars,
                 entered, failed, outcome>>

\* prepare_one_device, second half: btrfs_prepare_device sizes the device.
WorkerPrepare(w) ==
  /\ wpc[w] = "prepare"
  /\ \/ ctx' = [ctx EXCEPT ![w].ret = 0,
                  ![w].dev_byte_count =
                     IF args.byte_count = 0 THEN DevSize
                     ELSE Min(DevSize, args.byte_count)]
     \/ ctx' = [ctx EXCEPT ![w].ret = -EINVAL]
  /\ wpc' = [wpc EXCEPT ![w] = "exited"]
  /\ UNCHANGED <<args, avars, pc, i, j, ret, close_ret, mvars, fvars, tvars, cvars,
                 entered, failed, outcome>>

\* ------------------------------------------------------ the calling thread
\* blkid_do_fullprobe of the bundled libblkid replacement: 1 is "nothing
\* found", whatever the device holds.
blkid_do_fullprobe(w) == 1

\* test_dev_for_mkfs(path, force) as its caller reads it: 0 for a device that
\* is not to be formatted (a signature was found by the probe, or the device
\* is mounted, busy or too small), non-zero otherwise.
TestDevResults(w) == IF blkid_do_fullprobe(w) = 0 THEN {0} ELSE {0, 1}

\* "Validate devices": test_dev_for_mkfs on every path unless force is set.
ValidateDevices ==
  /\ pc = "validate"
  /\ IF args.force
     THEN /\ pc' = "alloc"
          /\ UNCHANGED <<probed, ret, failed>>
     ELSE \/ /\ \A w \in Devs : \E r \in TestDevResults(w) : r # 0
             /\ probed' = Devs
             /\ pc' = "alloc"
             /\ UNCHANGED <<ret, failed>>
          \/ \E w \in Devs :
               /\ \A x \in 0 .. (w - 1) : \E r \in TestDevResults(x) : r # 0
               /\ 0 \in TestDevResults(w)
               /\ probed' = 0 .. w
               /\ Fail("validate", -EINVAL, "out_free")
  /\ UNCHANGED <<args, fs_uuid, gil, peer, it, i, j, close_ret, wvars, mvars,
                 fvars, tvars, cvars, entered, outcome>>

\* calloc of t_prepare and prepare_ctx.
AllocContexts ==
  /\ pc = "alloc"
  /\ Enter("prepare")
  /\ \/ /\ pc' = "launch"
        /\ i' = 0
        /\ UNCHANGED <<ret, failed>>
     \/ /\ Fail("prepare", -ENOMEM, "out_free")
        /\ UNCHANGED i
  /\ UNCHANGED <<args, avars, j, close_ret, wvars, mvars, fvars, tvars, cvars,
                 outcome>>

\* One turn of the launch loop: fill prepare_ctx[i] and pthread_create.
LaunchWorker ==
  /\ pc = "launch"
  /\ i < args.n
  /\ ctx' = [ctx EXCEPT ![i].dev_byte_count = args.byte_count]
  /\ \/ /\ wpc' = [wpc EXCEPT ![i] = "open"]
        /\ i' = i + 1
        /\ UNCHANGED <<pc, j, ret, failed>>
     \/ /\ ret' = EAGAIN
        /\ failed' = [stage |-> "prepare", code |-> -EAGAIN, at |-> pc]
        /\ pc' = "create_failed"
        /\ j' = 0
        /\ UNCHANGED <<wpc, i>>
  /\ UNCHANGED <<args, avars, close_ret, mvars, fvars, tvars, cvars, entered,
                 outcome>>

LaunchDone ==
  /\ pc = "launch"
  /\ i = args.n
  /\ pc' = "join"
  /\ i' = 0
  /\ UNCHANGED <<args, avars, j, ret, close_ret, wvars, mvars, fvars, tvars, cvars,
                 entered, failed, outcome>>

\* ShouldClose without the test: close() on every context.
ShouldClose_Always(w) == TRUE

\* "if (prepare_ctx[w].fd >= 0)": the guard of both close loops.
ShouldClose(w) == ctx[w].fd >= 0

\* close(fd) issued by mkfs for the contexts in ws that pass the guard.
CloseAll(cc, ws) ==
  [f \in FdValues |->
     cc[f] + Cardinality({w \in ws : ctx[w].fd = f /\ ShouldClose(w)})]

\* pthread_create failed at i: join worker j, then close its descriptor.
CreateFailedJoinClose ==
  /\ pc = "create_failed"
  /\ j < i
  /\ wpc[j] = "exited"
  /\ joined' = joined \cup {j}
  /\ reads' = reads \cup
                {[ctx |-> j, field |-> "fd", unjoined |-> Unjoined \ {j}]}
  /\ closeCount' = CloseAll(closeCount, {j})
  /\ j' = j + 1
  /\ UNCHANGED <<args, avars, pc, i, ret, close_ret, wvars, fvars, tvars, cvars,
                 entered, failed, outcome>>

\* ... then free both arrays, ret = -ret, goto out_free.
CreateFailedDone ==
  /\ pc = "create_failed"
  /\ j = i
  /\ ret' = -ret
  /\ pc' = "out_free"
  /\ UNCHANGED <<args, avars, i, j, close_ret, wvars, mvars, fvars, tvars, cvars,
                 entered, failed, outcome>>

\* One turn of the join loop: pthread_join blocks until worker i has exited.
JoinWorker ==
  /\ pc = "join"
  /\ i < args.n
  /\ wpc[i] = "exited"
  /\ joined' = joined \cup {i}
  /\ i' = i + 1
  /\ UNCHANGED <<args, avars, pc, j, ret, close_ret, wvars, closeCount, reads, fvars,
                 tvars, cvars, entered, failed, outcome>>

\* JoinDone with the loop bound one short: the last worker is not joined.
JoinDone_Early ==
  /\ pc = "join"
  /\ i = args.n - 1
  /\ pc' = "check_first"
  /\ UNCHANGED <<args, avars, i, j, ret, close_ret, wvars, mvars, fvars, tvars, cvars,
                 entered, failed, outcome>>

JoinDone ==
  /\ pc = "join"
  /\ i = args.n
  /\ pc' = "check_first"
  /\ UNCHANGED <<args, avars, i, j, ret, close_ret, wvars, mvars, fvars, tvars, cvars,
                 entered, failed, outcome>>

\* CheckFirstDevice without the test of byte_count against dev_byte_count.
CheckFirstDevice_NoSizeCheck ==
  /\ pc = "check_first"
  /\ reads' = reads \cup {ReadCtx(0, "ret"), ReadCtx(0, "dev_byte_count")}
  /\ IF ctx[0].ret # 0
     THEN Fail("prepare", ctx[0].ret, "out_close")
     ELSE /\ pc' = "make_btrfs"
          /\ ret' = 0
          /\ UNCHANGED failed
  /\ UNCHANGED <<args, avars, i, j, close_ret, wvars, joined, closeCount, fvars,
                 tvars, cvars, entered, outcome>>

\* CheckFirstDevice that tests every device's result, not only the first.
CheckFirstDevice_CheckAll ==
  /\ pc = "check_first"
  /\ reads' = reads \cup {ReadCtx(w, "ret") : w \in Devs}
  /\ IF \E w \in Devs : ctx[w].ret # 0
     THEN LET w == CHOOSE x \in Devs :
                     ctx[x].ret # 0 /\ \A y \in Devs : ctx[y].ret # 0 => x <= y
          IN Fail("prepare", ctx[w].ret, "out_close")
     ELSE IF args.byte_count # 0 /\ args.byte_count > ctx[0].dev_byte_count
          THEN Fail("prepare", -ENOSPC, "out_close")
          ELSE /\ pc' = "make_btrfs"
               /\ ret' = 0
               /\ UNCHANGED failed
  /\ UNCHANGED <<args, avars, i, j, close_ret, wvars, joined, closeCount, fvars,
                 tvars, cvars, entered, outcome>>

\* ret = prepare_ctx[0].ret, then the requested size against the probed one.
CheckFirstDevice ==
  /\ pc = "check_first"
  /\ reads' = reads \cup {ReadCtx(0, "ret")} \cup
                (IF ctx[0].ret = 0 THEN {ReadCtx(0, "dev_byte_count")} ELSE {})
  /\ IF ctx[0].ret # 0
     THEN Fail("prepare", ctx[0].ret, "out_close")
     ELSE IF args.byte_count # 0 /\ args.byte_count > ctx[0].dev_byte_count
          THEN Fail("prepare", -ENOSPC, "out_close")
          ELSE /\ pc' = "make_btrfs"
               /\ ret' = 0
               /\ UNCHANGED failed
  /\ UNCHANGED <<args, avars, i, j, close_ret, wvars, joined, closeCount, fvars,
                 tvars, cvars, entered, outcome>>

\* Whether make_btrfs lays the file system out in zones: only one whose
\* super block carries the ZONED bit can be, and the device decides.
ZonedModes(features) == IF ZONED \in features THEN BOOLEAN ELSE {FALSE}

\* The block group make_btrfs lays down for the bootstrap system chunk: of
\* the fixed system group size, or of the zone size on zoned devices.
BootstrapGroups(zoned) ==
  {[start |-> 0, size |-> IF zoned THEN ZoneSize ELSE SystemGroupSize,
    flags |-> {SYSTEM}, used |-> 1]}

\* mkfs_cfg.fs_uuid after make_btrfs: the string it was given, or the
\* unparsed form of the UUID it generated when the string was empty.
ConfigUuid(u) == IF u # <<>> THEN u ELSE GeneratedUuid

\* make_btrfs(prepare_ctx[0].fd, &mkfs_cfg): superblock and bootstrap trees.
MakeBtrfs ==
  /\ pc = "make_btrfs"
  /\ Enter("make_btrfs")
  /\ reads' = reads \cup {ReadCtx(0, "fd")}
  /\ \/ /\ \E z \in ZonedModes(incompat_flags) :
             fs' = [fs EXCEPT !.superblock = TRUE,
                           !.uuid_in = fs_uuid,
                           !.uuid = ConfigUuid(fs_uuid),
                           !.total_bytes = ctx[0].dev_byte_count,
                           !.nodesize = mkfs_cfg_nodesize,
                           !.features = incompat_flags,
                           !.devices = <<args.under[0]>>,
                           !.zone_size = IF z THEN ZoneSize ELSE 0,
                           !.bgs = BootstrapGroups(z),
                           !.roots = {"root", "chunk", "dev", "extent", "csum",
                                      "free_space", "fs"}]
        /\ ret' = 0
        /\ pc' = "open_ctree"
        /\ UNCHANGED failed
     \/ /\ Fail("make_btrfs", -EIO, "out_close")
        /\ UNCHANGED fs
  /\ UNCHANGED <<args, avars, i, j, close_ret, wvars, joined, closeCount, allocation,
                 tvars, cvars, outcome>>

\* btrfs_is_zoned(fs_info) of kernel-shared/zoned.h.
btrfs_is_zoned(f) == f.zoned

\* open_ctree_fs_info on the first device: the file system is open, and
\* zoned when it was laid out in zones; fs_info->zone_size is their size.
OpenCtree ==
  /\ pc = "open_ctree"
  /\ \/ /\ fs' = [fs EXCEPT !.open = TRUE, !.zoned = fs.zone_size # 0]
        /\ pc' = "meta_begin"
        /\ UNCHANGED <<ret, failed>>
     \/ /\ Fail("make_btrfs", -EIO, "out_close")
        /\ UNCHANGED fs
  /\ UNCHANGED <<args, avars, i, j, close_ret, wvars, mvars, allocation, tvars, cvars,
                 entered, outcome>>

\* ------------------------------------------------------------ transactions
\* btrfs_start_transaction that succeeded.
StartTransaction ==
  /\ openTrans' = openTrans + 1
  /\ UNCHANGED <<pending, committed>>

\* btrfs_commit_transaction that succeeded: the batch becomes durable at once.
CommitTransaction ==
  /\ openTrans' = openTrans - 1
  /\ committed' = Append(committed, pending)
  /\ pending' = {}

\* btrfs_abort_transaction: the batch is dropped.
AbortTransaction ==
  /\ openTrans' = openTrans - 1
  /\ pending' = {}
  /\ UNCHANGED committed

\* A tree mutation made under the open transaction.
Mutate(m) ==
  /\ pending' = pending \cup {m}
  /\ UNCHANGED <<openTrans, committed>>

\* The generation of the last committed transaction (make_btrfs writes
\* generation 1) and the id of the transaction a start hands out.
generation == 1 + Len(committed)
transid == generation + 1

\* btrfs_alloc_chunk places the next chunk after every existing one.
ChunkEnd(bgs) ==
  IF bgs = {} THEN 0
  ELSE LET top == CHOOSE b \in bgs : \A c \in bgs : c.start <= b.start
       IN top.start + top.size

\* btrfs_make_block_group: the record of a fresh, empty chunk.
NewGroup(bgs, flags, size) ==
  [start |-> ChunkEnd(bgs), size |-> size, flags |-> flags, used |-> 0]

\* ------------------------------------------- create_metadata_block_groups
\* The stage that follows a successful metadata step.
AfterMetadata ==
  IF RAID_STRIPE_TREE \in incompat_flags THEN "stripe_start"
  ELSE IF REMAP_TREE \in incompat_flags THEN "remap_start"
  ELSE "data_start"

\* system_group_size without "if (btrfs_is_zoned(fs_info))".
system_group_size_Fixed(f) == SystemGroupSize

\* "u64 system_group_size = BTRFS_MKFS_SYSTEM_GROUP_SIZE; if
\* (btrfs_is_zoned(fs_info)) system_group_size = fs_info->zone_size;"
system_group_size(f) ==
  IF btrfs_is_zoned(f) THEN f.zone_size ELSE SystemGroupSize

\* The zoned branch, update_space_info, btrfs_start_transaction, then the
\* system ledger entry.
MetaBegin ==
  /\ pc = "meta_begin"
  /\ Enter("metadata")
  /\ \/ \E r \in {-ENOMEM} :
          /\ Fail("metadata", r, "out_ctree")
          /\ UNCHANGED <<fvars, tvars>>
     \/ \E r \in StartTransResults \ {0} :
          /\ Fail("metadata", r, "out_ctree")
          /\ UNCHANGED <<fvars, tvars>>
     \/ /\ StartTransaction
        /\ fs' = [fs EXCEPT !.system_allocs = 1]
        /\ allocation' =
             [allocation EXCEPT !.system = @ + system_group_size(fs)]
        /\ pc' = "meta_chunk"
        /\ ret' = 0
        /\ UNCHANGED failed
  /\ UNCHANGED <<args, avars, i, j, close_ret, wvars, mvars, cvars, outcome>>

\* The METADATA (mixed: METADATA|DATA) chunk and its block group.
MetaChunk ==
  /\ pc = "meta_chunk"
  /\ \/ \E r \in AllocChunkResults \ {0} :
          /\ Fail("metadata", r, "out_ctree")
          /\ UNCHANGED <<fvars, tvars>>
     \/ \E size \in ChunkSizes, m \in MakeBlockGroupResults :
          LET flags == IF MIXED_GROUPS \in incompat_flags
                       THEN {METADATA, DATA} ELSE {METADATA}
              made == [fs EXCEPT !.bgs = @ \cup {NewGroup(@, flags, size)}]
          IN IF MIXED_GROUPS \in incompat_flags
             THEN IF m # 0
                  THEN /\ Fail("metadata", m, "out_ctree")
                       /\ UNCHANGED <<fvars, tvars>>
                  ELSE /\ fs' = made
                       /\ allocation' = [allocation EXCEPT !.mixed = @ + size]
                       /\ Mutate("bg_metadata")
                       /\ pc' = "meta_remap"
                       /\ ret' = 0
                       /\ UNCHANGED failed
             ELSE /\ allocation' = [allocation EXCEPT !.metadata = @ + size]
                  /\ IF m # 0
                     THEN /\ Fail("metadata", m, "out_ctree")
                          /\ UNCHANGED <<fs, tvars>>
                     ELSE /\ fs' = made
                          /\ Mutate("bg_metadata")
                          /\ pc' = "meta_remap"
                          /\ ret' = 0
                          /\ UNCHANGED failed
  /\ UNCHANGED <<args, avars, i, j, close_ret, wvars, mvars, cvars, entered, outcome>>

\* The METADATA_REMAP chunk, only with the remap-tree feature.
MetaRemap ==
  /\ pc = "meta_remap"
  /\ IF REMAP_TREE \notin incompat_flags
     THEN /\ pc' = "meta_commit"
          /\ UNCHANGED <<ret, failed, fvars, tvars>>
     ELSE \/ \E r \in AllocChunkResults \ {0} :
               /\ Fail("metadata", r, "out_ctree")
               /\ UNCHANGED <<fvars, tvars>>
          \/ \E size \in ChunkSizes, m \in MakeBlockGroupResults :
               /\ allocation' = [allocation EXCEPT !.remap = @ + size]
               /\ IF m # 0
                  THEN /\ Fail("metadata", m, "out_ctree")
                       /\ UNCHANGED <<fs, tvars>>
                  ELSE /\ fs' = [fs EXCEPT !.bgs = @ \cup
                                   {NewGroup(@, {METADATA_REMAP}, size)}]
                       /\ Mutate("bg_remap")
                       /\ pc' = "meta_commit"
                       /\ ret' = 0
                       /\ UNCHANGED failed
  /\ UNCHANGED <<args, avars, i, j, close_ret, wvars, mvars, cvars, entered, outcome>>

\* MetaCommit without "if (ret) goto out_ctree": a failed commit goes on.
MetaCommit_NoCheck ==
  /\ pc = "meta_commit"
  /\ fs' = [fs EXCEPT !.system_allocs = 0]
  /\ \/ /\ CommitTransaction
        /\ ret' = 0
        /\ pc' = AfterMetadata
        /\ UNCHANGED failed
     \/ \E r \in CommitResults \ {0} :
          /\ Fail("metadata", r, AfterMetadata)
          /\ UNCHANGED tvars
  /\ UNCHANGED <<args, avars, i, j, close_ret, wvars, mvars, allocation, cvars,
                 entered, outcome>>

\* system_allocs = 0, then btrfs_commit_transaction.
MetaCommit ==
  /\ pc = "meta_commit"
  /\ fs' = [fs EXCEPT !.system_allocs = 0]
  /\ \/ /\ CommitTransaction
        /\ ret' = 0
        /\ pc' = AfterMetadata
        /\ UNCHANGED failed
     \/ \E r \in CommitResults \ {0} :
          /\ Fail("metadata", r, "out_ctree")
          /\ UNCHANGED tvars
  /\ UNCHANGED <<args, avars, i, j, close_ret, wvars, mvars, allocation, cvars,
                 entered, outcome>>

\* ----------------------------------------------------- optional tree roots
AfterStripe ==
  IF REMAP_TREE \in incompat_flags THEN "remap_start" ELSE "data_start"

\* setup_raid_stripe_tree_root: btrfs_start_transaction.
StripeStart ==
  /\ pc = "stripe_start"
  /\ Enter("stripe_root")
  /\ \/ /\ StartTransaction
        /\ pc' = "stripe_create"
        /\ UNCHANGED <<ret, failed>>
     \/ \E r \in StartTransResults \ {0} :
          /\ Fail("stripe_root", r, "out_ctree")
          /\ UNCHANGED tvars
  /\ UNCHANGED <<args, avars, i, j, close_ret, wvars, mvars, fvars, cvars, outcome>>

\* setup_raid_stripe_tree_root: btrfs_create_tree, aborting on failure.
StripeCreate ==
  /\ pc = "stripe_create"
  /\ \/ /\ fs' = [fs EXCEPT !.roots = @ \cup {"raid_stripe"}]
        /\ Mutate("stripe_root")
        /\ pc' = "stripe_commit"
        /\ UNCHANGED <<ret, failed>>
     \/ \E r \in TreeOpResults \ {0} :
          /\ AbortTransaction
          /\ Fail("stripe_root", r, "out_ctree")
          /\ UNCHANGED fs
  /\ UNCHANGED <<args, avars, i, j, close_ret, wvars, mvars, allocation, cvars,
                 entered, outcome>>

\* setup_raid_stripe_tree_root: btrfs_commit_transaction.
StripeCommit ==
  /\ pc = "stripe_commit"
  /\ \/ /\ CommitTransaction
        /\ ret' = 0
        /\ pc' = AfterStripe
        /\ UNCHANGED failed
     \/ \E r \in CommitResults \ {0} :
          /\ Fail("stripe_root", r, "out_ctree")
          /\ UNCHANGED tvars
  /\ UNCHANGED <<args, avars, i, j, close_ret, wvars, mvars, fvars, cvars, entered,
                 outcome>>

\* setup_remap_tree_root: btrfs_start_transaction.
RemapStart ==
  /\ pc = "remap_start"
  /\ Enter("remap_root")
  /\ \/ /\ StartTransaction
        /\ pc' = "remap_create"
        /\ UNCHANGED <<ret, failed>>
     \/ \E r \in StartTransResults \ {0} :
          /\ Fail("remap_root", r, "out_ctree")
          /\ UNCHANGED tvars
  /\ UNCHANGED <<args, avars, i, j, close_ret, wvars, mvars, fvars, cvars, outcome>>

\* setup_remap_tree_root: btrfs_create_tree and the superblock's remap root.
RemapCreate ==
  /\ pc = "remap_create"
  /\ \/ /\ fs' = [fs EXCEPT !.roots = @ \cup {"remap"}, !.sb_remap_root = TRUE]
        /\ Mutate("remap_root")
        /\ pc' = "remap_commit"
        /\ UNCHANGED <<ret, failed>>
     \/ \E r \in TreeOpResults \ {0} :
          /\ AbortTransaction
          /\ Fail("remap_root", r, "out_ctree")
          /\ UNCHANGED fs
  /\ UNCHANGED <<args, avars, i, j, close_ret, wvars, mvars, allocation, cvars,
                 entered, outcome>>

\* setup_remap_tree_root: btrfs_commit_transaction.
RemapCommit ==
  /\ pc = "remap_commit"
  /\ \/ /\ CommitTransaction
        /\ ret' = 0
        /\ pc' = "data_start"
        /\ UNCHANGED failed
     \/ \E r \in CommitResults \ {0} :
          /\ Fail("remap_root", r, "out_ctree")
          /\ UNCHANGED tvars
  /\ UNCHANGED <<args, avars, i, j, close_ret, wvars, mvars, fvars, cvars, entered,
                 outcome>>

\* ------------------------------------- data block groups and root directory
\* "Start transaction for data block groups + root dir".
DataStart ==
  /\ pc = "data_start"
  /\ Enter("data_rootdir")
  /\ \/ /\ StartTransaction
        /\ pc' = "data_groups"
        /\ UNCHANGED <<ret, failed>>
     \/ \E r \in StartTransResults \ {0} :
          /\ Fail("data_rootdir", r, "out_ctree")
          /\ UNCHANGED tvars
  /\ UNCHANGED <<args, avars, i, j, close_ret, wvars, mvars, fvars, cvars, outcome>>

\* create_data_block_groups: one DATA chunk unless mixed.
DataGroups ==
  /\ pc = "data_groups"
  /\ IF args.mixed
     THEN /\ pc' = "global_roots"
          /\ ret' = 0
          /\ UNCHANGED <<failed, fvars, tvars>>
     ELSE \/ \E r \in AllocChunkResults \ {0} :
               /\ Fail("data_rootdir", r, "out_ctree")
               /\ UNCHANGED <<fvars, tvars>>
          \/ \E size \in ChunkSizes, m \in MakeBlockGroupResults :
               /\ allocation' = [allocation EXCEPT !.data = @ + size]
               /\ IF m # 0
                  THEN /\ Fail("data_rootdir", m, "out_ctree")
                       /\ UNCHANGED <<fs, tvars>>
                  ELSE /\ fs' = [fs EXCEPT !.bgs = @ \cup
                                   {NewGroup(@, {DATA}, size)}]
                       /\ Mutate("bg_data")
                       /\ pc' = "global_roots"
                       /\ ret' = 0
                       /\ UNCHANGED failed
  /\ UNCHANGED <<args, avars, i, j, close_ret, wvars, mvars, cvars, entered, outcome>>

\* create_global_roots, only with extent-tree-v2; a failure aborts.
GlobalRoots ==
  /\ pc = "global_roots"
  /\ IF EXTENT_TREE_V2 \notin incompat_flags
     THEN /\ pc' = "root_dir"
          /\ UNCHANGED <<ret, failed, fs, tvars>>
     ELSE \/ /\ fs' = [fs EXCEPT !.roots = @ \cup {"global"}]
             /\ Mutate("global_roots")
             /\ pc' = "root_dir"
             /\ ret' = 0
             /\ UNCHANGED failed
          \/ \E r \in TreeOpResults \ {0} :
               /\ AbortTransaction
               /\ Fail("data_rootdir", r, "out_ctree")
               /\ UNCHANGED fs
  /\ UNCHANGED <<args, avars, i, j, close_ret, wvars, mvars, allocation, cvars,
                 entered, outcome>>

\* make_root_dir.
RootDir ==
  /\ pc = "root_dir"
  /\ \/ /\ fs' = [fs EXCEPT !.roots = @ \cup {"root_dir"}]
        /\ Mutate("root_dir")
        /\ pc' = "data_commit"
        /\ ret' = 0
        /\ UNCHANGED failed
     \/ \E r \in TreeOpResults \ {0} :
          /\ Fail("data_rootdir", r, "out_ctree")
          /\ UNCHANGED <<fs, tvars>>
  /\ UNCHANGED <<args, avars, i, j, close_ret, wvars, mvars, allocation, cvars,
                 entered, outcome>>

\* DataCommit that goes on without committing the transaction.
DataCommit_Skipped ==
  /\ pc = "data_commit"
  /\ ret' = 0
  /\ pc' = "attach_start"
  /\ UNCHANGED <<args, avars, i, j, close_ret, wvars, mvars, fvars, tvars, cvars,
                 entered, failed, outcome>>

\* btrfs_commit_transaction of the data / root directory transaction.
DataCommit ==
  /\ pc = "data_commit"
  /\ \/ /\ CommitTransaction
        /\ ret' = 0
        /\ pc' = "attach_start"
        /\ UNCHANGED failed
     \/ \E r \in CommitResults \ {0} :
          /\ Fail("data_rootdir", r, "out_ctree")
          /\ UNCHANGED tvars
  /\ UNCHANGED <<args, avars, i, j, close_ret, wvars, mvars, fvars, cvars, entered,
                 outcome>>

\* ------------------------------------------------------- attach extra devices
\* "Add extra devices": btrfs_start_transaction.
AttachStart ==
  /\ pc = "attach_start"
  /\ Enter("attach")
  /\ \/ /\ StartTransaction
        /\ pc' = "attach"
        /\ i' = 1
        /\ UNCHANGED <<ret, failed>>
     \/ \E r \in StartTransResults \ {0} :
          /\ Fail("attach", r, "out_ctree")
          /\ UNCHANGED <<i, tvars>>
  /\ UNCHANGED <<args, avars, j, close_ret, wvars, mvars, fvars, cvars, outcome>>

\* btrfs_device_already_in_root: 1 when the device behind the descriptor
\* already belongs to this filesystem, 0 when not, negative on an error.
AlreadyInRootResults(w) ==
  {IF args.under[w] \in Range(fs.devices) THEN 1 ELSE 0, -ENOMEM}

\* SkipAttach that never skips: every device is added.
SkipAttach_Never(r) == FALSE

\* "if (ret) continue;" after the already-registered check.
SkipAttach(r) == r # 0

\* One turn of the attach loop for prepare_ctx[i]: ret is read, then fd for
\* btrfs_device_already_in_root, then dev_byte_count and file for
\* btrfs_add_to_fsid.
AttachDevice ==
  /\ pc = "attach"
  /\ i < args.n
  /\ IF ctx[i].ret # 0
     THEN /\ reads' = reads \cup {ReadCtx(i, "ret")}
          /\ Fail("attach", ctx[i].ret, "out_ctree")
          /\ UNCHANGED <<i, fs, tvars>>
     ELSE \E r \in AlreadyInRootResults(i) :
            IF SkipAttach(r)
            THEN /\ reads' = reads \cup {ReadCtx(i, "ret"), ReadCtx(i, "fd")}
                 /\ ret' = r
                 /\ i' = i + 1
                 /\ UNCHANGED <<pc, failed, fs, tvars>>
            ELSE /\ reads' = reads \cup
                               {ReadCtx(i, "ret"), ReadCtx(i, "fd"),
                                ReadCtx(i, "dev_byte_count"),
                                ReadCtx(i, "file")}
                 /\ \/ /\ fs' = [fs EXCEPT
                                   !.devices = Append(@, args.under[i]),
                                   !.add_calls = @ \cup {i}]
                       /\ Mutate("add_device")
                       /\ ret' = 0
                       /\ i' = i + 1
                       /\ UNCHANGED <<pc, failed>>
                    \/ \E e \in TreeOpResults \ {0} :
                         /\ fs' = [fs EXCEPT !.add_calls = @ \cup {i}]
                         /\ Fail("attach", e, "out_ctree")
                         /\ UNCHANGED <<i, tvars>>
  /\ UNCHANGED <<args, avars, j, close_ret, wvars, joined, closeCount, allocation,
                 cvars, entered, outcome>>

\* The end of the attach loop with a commit and a new transaction after it.
AttachDone_Commits ==
  /\ pc = "attach"
  /\ i = args.n
  /\ pc' = "raid_system"
  /\ committed' = Append(committed, pending)
  /\ pending' = {}
  /\ UNCHANGED <<args, avars, i, j, ret, close_ret, wvars, mvars, fvars, openTrans,
                 cvars, entered, failed, outcome>>

\* The end of the attach loop: on to create_raid_groups, same transaction.
AttachDone ==
  /\ pc = "attach"
  /\ i = args.n
  /\ pc' = "raid_system"
  /\ UNCHANGED <<args, avars, i, j, ret, close_ret, wvars, mvars, fvars, tvars, cvars,
                 entered, failed, outcome>>

\* ------------------------------------------------------------- RAID groups
\* The ledger entry create_one_raid_group charges for a type mask.
LedgerAdd(alloc, type, size) ==
  IF type = {DATA} THEN [alloc EXCEPT !.data = @ + size]
  ELSE IF type = {METADATA} THEN [alloc EXCEPT !.metadata = @ + size]
  ELSE IF type = {SYSTEM} THEN [alloc EXCEPT !.system = @ + size]
  ELSE IF type = {METADATA, DATA} THEN [alloc EXCEPT !.mixed = @ + size]
  ELSE alloc

\* A classification that takes every type mask.
RecognizedType_Any(type) == TRUE

\* The type masks create_one_raid_group has a ledger entry for.
RecognizedType(type) ==
  type \in {{DATA}, {METADATA}, {SYSTEM}, {METADATA, DATA}}

\* create_one_raid_group(trans, root, type, allocation), then `next`.
CreateOneRaidGroup(type, label, next) ==
  \/ \E r \in AllocChunkResults \ {0} :
       /\ Fail("raid_groups", r, "out_ctree")
       /\ UNCHANGED <<fvars, tvars>>
  \/ \E size \in ChunkSizes, m \in MakeBlockGroupResults :
       LET t == type \cap BTRFS_BLOCK_GROUP_TYPE_MASK
           code == IF RecognizedType(t) THEN m ELSE -EINVAL
       IN /\ allocation' = LedgerAdd(allocation, t, size)
          /\ IF m = 0
             THEN /\ fs' = [fs EXCEPT !.bgs = @ \cup {NewGroup(@, type, size)}]
                  /\ Mutate(label)
             ELSE UNCHANGED <<fs, tvars>>
          /\ IF code # 0
             THEN Fail("raid_groups", code, "out_ctree")
             ELSE /\ pc' = next
                  /\ ret' = 0
                  /\ UNCHANGED failed

\* create_raid_groups: the SYSTEM group at the metadata profile.
RaidSystem ==
  /\ pc = "raid_system"
  /\ Enter("raid_groups")
  /\ IF meta_profile = {}
     THEN /\ pc' = "raid_data"
          /\ ret' = 0
          /\ UNCHANGED <<failed, fvars, tvars>>
     ELSE CreateOneRaidGroup({SYSTEM} \cup meta_profile, "rg_system",
                             "raid_metadata")
  /\ UNCHANGED <<args, avars, i, j, close_ret, wvars, mvars, cvars, outcome>>

\* RaidMetadata without "if (mixed) meta_flags |= BTRFS_BLOCK_GROUP_DATA".
RaidMetadata_NoMixed ==
  /\ pc = "raid_metadata"
  /\ CreateOneRaidGroup({METADATA} \cup meta_profile, "rg_metadata",
                        "raid_data")
  /\ UNCHANGED <<args, avars, i, j, close_ret, wvars, mvars, cvars, entered, outcome>>

\* create_raid_groups: the METADATA (mixed: METADATA|DATA) group.
RaidMetadata ==
  /\ pc = "raid_metadata"
  /\ CreateOneRaidGroup(
       (IF args.mixed THEN {METADATA, DATA} ELSE {METADATA}) \cup meta_profile,
       "rg_metadata", "raid_data")
  /\ UNCHANGED <<args, avars, i, j, close_ret, wvars, mvars, cvars, entered, outcome>>

\* RaidData without the "!mixed" test.
RaidData_IgnoreMixed ==
  /\ pc = "raid_data"
  /\ IF data_prof # {}
     THEN CreateOneRaidGroup({DATA} \cup data_prof, "rg_data", "raid_commit")
     ELSE /\ pc' = "raid_commit"
          /\ UNCHANGED <<ret, failed, fvars, tvars>>
  /\ UNCHANGED <<args, avars, i, j, close_ret, wvars, mvars, cvars, entered, outcome>>

\* create_raid_groups: the DATA group, when not mixed and a profile is set.
RaidData ==
  /\ pc = "raid_data"
  /\ IF ~args.mixed /\ data_prof # {}
     THEN CreateOneRaidGroup({DATA} \cup data_prof, "rg_data", "raid_commit")
     ELSE /\ pc' = "raid_commit"
          /\ UNCHANGED <<ret, failed, fvars, tvars>>
  /\ UNCHANGED <<args, avars, i, j, close_ret, wvars, mvars, cvars, entered, outcome>>

\* RaidCommit that goes on without committing.
RaidCommit_Skipped ==
  /\ pc = "raid_commit"
  /\ Enter("commit_recow")
  /\ openTrans' = openTrans - 1
  /\ ret' = 0
  /\ pc' = "recow_start"
  /\ UNCHANGED <<args, avars, i, j, close_ret, wvars, mvars, fvars, cvars, outcome,
                 failed, pending, committed>>

\* "Commit and re-COW all tree blocks to new raid groups": the commit.
RaidCommit ==
  /\ pc = "raid_commit"
  /\ Enter("commit_recow")
  /\ \/ /\ CommitTransaction
        /\ ret' = 0
        /\ pc' = "recow_start"
        /\ UNCHANGED failed
     \/ \E r \in CommitResults \ {0} :
          /\ Fail("commit_recow", r, "out_ctree")
          /\ UNCHANGED tvars
  /\ UNCHANGED <<args, avars, i, j, close_ret, wvars, mvars, fvars, cvars, outcome>>

\* ------------------------------------------ recow and data-relocation tree
\* The new transaction finds the trees as the committed ones left them.
RecowStart ==
  /\ pc = "recow_start"
  /\ \/ /\ StartTransaction
        /\ \E lay \in LeafLayouts(generation) :
             fs' = [fs EXCEPT !.leaves = lay]
        /\ pc' = "recow"
        /\ UNCHANGED <<ret, failed>>
     \/ \E r \in StartTransResults \ {0} :
          /\ Fail("commit_recow", r, "out_ctree")
          /\ UNCHANGED <<fs, tvars>>
  /\ UNCHANGED <<args, avars, i, j, close_ret, wvars, mvars, allocation, cvars,
                 entered, outcome>>

\* btrfs_search_slot(trans, root, &key, &path, 0, 1): the copy-on-write of
\* the path gives leaf k the generation of the transaction.
CowLeaf(lv, k, t) == [lv EXCEPT ![k] = t]

\* The loop of __recow_root over the leaves lv of one tree, from leaf k on.
RECURSIVE recow_loop(_, _, _)
recow_loop(lv, k, t) ==
  IF k > Len(lv) THEN lv
  ELSE IF lv[k] = t THEN recow_loop(lv, k + 1, t)
  ELSE recow_loop(CowLeaf(lv, k, t), k + 1, t)

\* A walk that gives up after the first leaf.
recow_root_FirstLeaf(lv, t) ==
  IF lv = <<>> \/ lv[1] = t THEN lv ELSE CowLeaf(lv, 1, t)

\* __recow_root(trans, root) on a tree with leaves lv.
recow_root(lv, t) == recow_loop(lv, 1, t)

\* recow_global_roots(trans).
recow_global_roots(leaves, t) ==
  [r \in TreeNames |->
     IF r \in global_roots_tree
     THEN recow_root(leaves[r], t) ELSE leaves[r]]

\* The trees recow_roots walks before the global roots.
WalkedRoots ==
  {"fs", "tree_root", "chunk", "dev"}
    \cup (IF BLOCK_GROUP_TREE \in compat_ro_flags THEN {"block_group"} ELSE {})
    \cup (IF RAID_STRIPE_TREE \in incompat_flags THEN {"stripe"} ELSE {})

\* recow_roots(trans, root) when every search succeeds.
recow_roots(leaves, t) ==
  recow_global_roots(
    [r \in TreeNames |->
       IF r \in WalkedRoots THEN recow_root(leaves[r], t)
       ELSE leaves[r]], t)

\* The trees recow_roots hands to __recow_root, in the order of its calls;
\* the global roots come last, in the order of the red-black tree.
RecowOrder ==
  SelectSeq(<<"fs", "tree_root", "chunk", "dev", "block_group", "stripe",
              "extent", "csum", "free_space">>,
            LAMBDA r : r \in WalkedRoots \cup global_roots_tree)

\* The most library calls one __recow_root makes: the first search, then a
\* search and a btrfs_next_leaf for every leaf.
MaxCalls == 1 + 2 * LeavesPerTree

\* The loop of __recow_root from leaf k on, when the library call number
\* fail (0: none) returns the negative code err.  w carries the leaves, the
\* calls made, the leaves visited and rewritten so far, and the result.
RECURSIVE walk_loop(_, _, _, _, _)
walk_loop(w, k, t, fail, err) ==
  LET v == [w EXCEPT !.visited = Append(@, k)]
      stale == v.leaves[k] # t
  IN IF stale /\ v.calls + 1 = fail
     THEN [v EXCEPT !.calls = @ + 1, !.ret = err]
     ELSE LET x == IF stale
                   THEN [v EXCEPT !.leaves = CowLeaf(@, k, t),
                                  !.calls = @ + 1,
                                  !.cowed = Append(@, k)]
                   ELSE v
              n == [x EXCEPT !.calls = @ + 1]
          IN IF n.calls = fail THEN [n EXCEPT !.ret = err]
             ELSE IF k = Len(n.leaves) THEN [n EXCEPT !.ret = 0]
             ELSE walk_loop(n, k + 1, t, fail, err)

\* A walk that goes on after the failing call and reports it at the end.
recow_root_calls_NoStop(lv, t, fail, err) ==
  LET start == [leaves |-> lv, calls |-> 1, visited |-> <<>>,
                cowed |-> <<>>, ret |-> 0]
      w == walk_loop(start, 1, t, 0, err)
  IN IF fail = 1 THEN [start EXCEPT !.ret = err]
     ELSE [w EXCEPT !.ret = IF fail \in 2 .. w.calls THEN err ELSE 0]

\* __recow_root(trans, root) with its library calls counted.
recow_root_calls(lv, t, fail, err) ==
  LET start == [leaves |-> lv, calls |-> 1, visited |-> <<>>,
                cowed |-> <<>>, ret |-> 0]
  IN IF fail = 1 THEN [start EXCEPT !.ret = err]
     ELSE walk_loop(start, 1, t, fail, err)

\* The allocations made for the rewrite of the trees walked earlier may
\* have rewritten leaves of a global root already: the leaves in d carry
\* the id of the transaction when the walk of that root begins.
DirtySets(r, lv) ==
  IF r \in global_roots_tree THEN SUBSET (DOMAIN lv) ELSE {{}}
Dirtied(lv, d, t) == [k \in DOMAIN lv |-> IF k \in d THEN t ELSE lv[k]]

\* recow_roots(trans, root) that stops in its n-th __recow_root, whose
\* walk w failed: the trees before it are rewritten, those after untouched.
recow_roots_stopped(leaves, order, n, w, t) ==
  [r \in TreeNames |->
     IF \E m \in 1 .. n - 1 : order[m] = r
     THEN recow_root(leaves[r], t)
     ELSE IF r = order[n] THEN w.leaves
     ELSE leaves[r]]

\* recow_roots returns the negative result of the walk w of its n-th tree:
\* "if (ret) goto out_ctree" with what was rewritten still in the transaction.
RecowStopped(order, n, w) ==
  /\ w.ret < 0
  /\ fs' = [fs EXCEPT !.leaves = recow_roots_stopped(@, order, n, w, transid)]
  /\ Fail("commit_recow", w.ret, "out_ctree")
  /\ IF n > 1 \/ w.cowed # <<>>
     THEN Mutate("recow_partial")
     ELSE UNCHANGED tvars

\* A library call of one of the walks of recow_roots fails: call c of the
\* walk of the n-th tree.
RecowFails(order) ==
  \E n \in 1 .. Len(order), c \in 1 .. MaxCalls, r \in TreeOpResults \ {0} :
    \E d \in DirtySets(order[n], fs.leaves[order[n]]) :
      RecowStopped(order, n,
                   recow_root_calls(Dirtied(fs.leaves[order[n]], d, transid),
                                    transid, c, r))

\* After the rewrite the tree blocks live in the groups of the final metadata
\* profile; metadata and system groups of another profile hold nothing.
RecowGroups(bgs) ==
  {IF (b.flags \cap {METADATA, SYSTEM}) # {}
   THEN [b EXCEPT !.used =
           IF (b.flags \cap BTRFS_BLOCK_GROUP_PROFILE_MASK) = meta_profile
           THEN 1 ELSE 0]
   ELSE b : b \in bgs}

\* recow_roots(trans, root).
Recow ==
  /\ pc = "recow"
  /\ \/ /\ fs' = [fs EXCEPT !.bgs = RecowGroups(@),
                           !.leaves = recow_roots(@, transid)]
        /\ Mutate("recow")
        /\ pc' = "reloc"
        /\ ret' = 0
        /\ UNCHANGED failed
     \/ RecowFails(RecowOrder)
  /\ UNCHANGED <<args, avars, i, j, close_ret, wvars, mvars, allocation, cvars,
                 entered, outcome>>

\* Reloc without the remap-tree test: the tree is always created.
Reloc_Always ==
  /\ pc = "reloc"
  /\ Enter("data_reloc")
  /\ \/ /\ fs' = [fs EXCEPT !.roots = @ \cup {"data_reloc"}]
        /\ Mutate("data_reloc")
        /\ pc' = "recow_commit"
        /\ ret' = 0
        /\ UNCHANGED failed
     \/ \E r \in TreeOpResults \ {0} :
          /\ Fail("data_reloc", r, "out_ctree")
          /\ UNCHANGED <<fs, tvars>>
  /\ UNCHANGED <<args, avars, i, j, close_ret, wvars, mvars, allocation, cvars,
                 outcome>>

\* "Create data reloc tree", skipped with the remap-tree feature.
Reloc ==
  /\ pc = "reloc"
  /\ IF REMAP_TREE \in incompat_flags
     THEN /\ pc' = "recow_commit"
          /\ UNCHANGED <<ret, failed, fs, tvars, entered>>
     ELSE /\ Enter("data_reloc")
          /\ \/ /\ fs' = [fs EXCEPT !.roots = @ \cup {"data_reloc"}]
                /\ Mutate("data_reloc")
                /\ pc' = "recow_commit"
                /\ ret' = 0
                /\ UNCHANGED failed
             \/ \E r \in TreeOpResults \ {0} :
                  /\ Fail("data_reloc", r, "out_ctree")
                  /\ UNCHANGED <<fs, tvars>>
  /\ UNCHANGED <<args, avars, i, j, close_ret, wvars, mvars, allocation, cvars,
                 outcome>>

RecowCommit ==
  /\ pc = "recow_commit"
  /\ \/ /\ CommitTransaction
        /\ ret' = 0
        /\ pc' = "uuid"
        /\ UNCHANGED failed
     \/ \E r \in CommitResults \ {0} :
          /\ Fail(Last(entered), r, "out_ctree")
          /\ UNCHANGED tvars
  /\ UNCHANGED <<args, avars, i, j, close_ret, wvars, mvars, fvars, cvars, entered,
                 outcome>>

\* btrfs_rebuild_uuid_tree(fs_info), which runs a transaction of its own.
RebuildUuidTree ==
  /\ pc = "uuid"
  /\ Enter("uuid")
  /\ \/ /\ fs' = [fs EXCEPT !.roots = @ \cup {"uuid"}]
        /\ committed' = Append(committed, {"uuid_tree"})
        /\ pc' = "cleanup_start"
        /\ ret' = 0
        /\ UNCHANGED <<failed, openTrans, pending>>
     \/ \E r \in TreeOpResults \ {0} :
          /\ Fail("uuid", r, "out_ctree")
          /\ UNCHANGED <<fs, tvars>>
  /\ UNCHANGED <<args, avars, i, j, close_ret, wvars, mvars, allocation, cvars,
                 outcome>>

\* ----------------------------------------------------- cleanup_temp_chunks
is_temp_block_group(b, data_profile, meta_prof, sys_profile) ==
  LET flag_type == b.flags \cap BTRFS_BLOCK_GROUP_TYPE_MASK
      flag_profile == b.flags \cap BTRFS_BLOCK_GROUP_PROFILE_MASK
  IN IF b.used # 0 THEN FALSE
     ELSE IF flag_type = {DATA} \/ flag_type = {DATA, METADATA}
          THEN flag_profile # (data_profile \cap BTRFS_BLOCK_GROUP_PROFILE_MASK)
     ELSE IF flag_type = {METADATA}
          THEN flag_profile # (meta_prof \cap BTRFS_BLOCK_GROUP_PROFILE_MASK)
     ELSE IF flag_type = {SYSTEM}
          THEN flag_profile # (sys_profile \cap BTRFS_BLOCK_GROUP_PROFILE_MASK)
     ELSE FALSE

\* LedgerSub that books a DATA|METADATA group on the metadata entry.
LedgerSub_MetadataFirst(alloc, flags, size) ==
  LET type == flags \cap BTRFS_BLOCK_GROUP_TYPE_MASK
  IN IF type = {DATA} THEN [alloc EXCEPT !.data = @ - size]
     ELSE IF METADATA \in type THEN [alloc EXCEPT !.metadata = @ - size]
     ELSE IF type = {SYSTEM} THEN [alloc EXCEPT !.system = @ - size]
     ELSE alloc

\* The ledger entry cleanup_temp_chunks credits for a removed group.
LedgerSub(alloc, flags, size) ==
  LET type == flags \cap BTRFS_BLOCK_GROUP_TYPE_MASK
  IN IF type = {DATA} THEN [alloc EXCEPT !.data = @ - size]
     ELSE IF type = {METADATA} THEN [alloc EXCEPT !.metadata = @ - size]
     ELSE IF type = {SYSTEM} THEN [alloc EXCEPT !.system = @ - size]
     ELSE IF type = {METADATA, DATA} THEN [alloc EXCEPT !.mixed = @ - size]
     ELSE alloc

\* cleanup_temp_chunks: btrfs_start_transaction and the first search key.
CleanupStart ==
  /\ pc = "cleanup_start"
  /\ Enter("cleanup")
  /\ \/ /\ StartTransaction
        /\ key' = 0
        /\ cleanErr' = 0
        /\ pc' = "cleanup_scan"
        /\ UNCHANGED <<ret, failed>>
     \/ \E r \in StartTransResults \ {0} :
          /\ Fail("cleanup", r, "out_ctree")
          /\ UNCHANGED <<tvars, cvars>>
  /\ UNCHANGED <<args, avars, i, j, close_ret, wvars, mvars, fvars, outcome>>

\* CleanupScan with "key.objectid = found_key.objectid": the key is not
\* moved past the group.
CleanupScan_KeyAtStart ==
  /\ pc = "cleanup_scan"
  /\ LET ahead == {b \in fs.bgs : b.start >= key}
     IN \/ \E r \in TreeOpResults \ {0} :
             /\ cleanErr' = r
             /\ pc' = "cleanup_commit"
             /\ UNCHANGED <<key, fvars, tvars>>
        \/ /\ ahead = {}
           /\ cleanErr' = 0
           /\ pc' = "cleanup_commit"
           /\ UNCHANGED <<key, fvars, tvars>>
        \/ /\ ahead # {}
           /\ LET b == CHOOSE c \in ahead : \A d \in ahead : c.start <= d.start
              IN IF is_temp_block_group(b, data_prof, meta_profile, meta_profile)
                 THEN \/ /\ fs' = [fs EXCEPT !.bgs = @ \ {b}]
                         /\ allocation' = LedgerSub(allocation, b.flags, b.size)
                         /\ Mutate("remove_group")
                         /\ key' = b.start
                         /\ UNCHANGED <<pc, cleanErr>>
                      \/ \E r \in TreeOpResults \ {0} :
                           /\ cleanErr' = r
                           /\ pc' = "cleanup_commit"
                           /\ UNCHANGED <<key, fvars, tvars>>
                 ELSE /\ key' = b.start
                      /\ UNCHANGED <<pc, cleanErr, fvars, tvars>>
  /\ UNCHANGED <<args, avars, i, j, ret, close_ret, wvars, mvars, entered, failed,
                 outcome>>

\* One turn of the scan: search from key, look at the block group found
\* there, remove it when temporary, move the key past it.
CleanupScan ==
  /\ pc = "cleanup_scan"
  /\ LET ahead == {b \in fs.bgs : b.start >= key}
     IN \/ \E r \in TreeOpResults \ {0} :
             /\ cleanErr' = r
             /\ pc' = "cleanup_commit"
             /\ UNCHANGED <<key, fvars, tvars>>
        \/ /\ ahead = {}
           /\ cleanErr' = 0
           /\ pc' = "cleanup_commit"
           /\ UNCHANGED <<key, fvars, tvars>>
        \/ /\ ahead # {}
           /\ LET b == CHOOSE c \in ahead : \A d \in ahead : c.start <= d.start
              IN IF is_temp_block_group(b, data_prof, meta_profile, meta_profile)
                 THEN \/ /\ fs' = [fs EXCEPT !.bgs = @ \ {b}]
                         /\ allocation' = LedgerSub(allocation, b.flags, b.size)
                         /\ Mutate("remove_group")
                         /\ key' = b.start + b.size
                         /\ UNCHANGED <<pc, cleanErr>>
                      \/ \E r \in TreeOpResults \ {0} :
                           /\ cleanErr' = r
                           /\ pc' = "cleanup_commit"
                           /\ UNCHANGED <<key, fvars, tvars>>
                 ELSE /\ key' = b.start + b.size
                      /\ UNCHANGED <<pc, cleanErr, fvars, tvars>>
  /\ UNCHANGED <<args, avars, i, j, ret, close_ret, wvars, mvars, entered, failed,
                 outcome>>

\* CleanupCommit whose caller does not test ret before finalizing.
CleanupCommit_NoCheck ==
  /\ pc = "cleanup_commit"
  /\ \/ /\ CommitTransaction
        /\ ret' = 0
        /\ pc' = "capture"
        /\ UNCHANGED failed
     \/ \E r \in CommitResults \ {0} :
          /\ Fail("cleanup", r, "capture")
          /\ UNCHANGED tvars
  /\ UNCHANGED <<args, avars, i, j, close_ret, wvars, mvars, fvars, cvars, entered,
                 outcome>>

\* out: ret = btrfs_commit_transaction(trans, root); return ret.
CleanupCommit ==
  /\ pc = "cleanup_commit"
  /\ \/ /\ CommitTransaction
        /\ ret' = 0
        /\ pc' = "capture"
        /\ UNCHANGED failed
     \/ \E r \in CommitResults \ {0} :
          /\ Fail("cleanup", r, "out_ctree")
          /\ UNCHANGED tvars
  /\ UNCHANGED <<args, avars, i, j, close_ret, wvars, mvars, fvars, cvars, entered,
                 outcome>>

\* ------------------------------------------------------ finalize and exits
\* "Capture results before closing", then finalize_on_close = 1.
Capture ==
  /\ pc = "capture"
  /\ Enter("finalize")
  /\ outcome' = [outcome EXCEPT
                   !.uuid = strncpy(fs.uuid, BTRFS_UUID_UNPARSED_SIZE - 1),
                   !.num_bytes = fs.total_bytes]
  /\ fs' = [fs EXCEPT !.finalize_on_close = 1]
  /\ pc' = "out_ctree"
  /\ UNCHANGED <<args, avars, i, j, ret, close_ret, wvars, mvars, allocation, tvars,
                 cvars, failed>>

\* OutCtree without the "!ret" test: close_ctree's code replaces ret.
OutCtree_Overwrite ==
  /\ pc = "out_ctree"
  /\ \E c \in CloseCtreeResults :
       /\ close_ret' = c
       /\ ret' = IF c # 0 THEN c ELSE ret
  /\ fs' = [fs EXCEPT !.open = FALSE, !.closed = TRUE]
  /\ pc' = "out_close"
  /\ UNCHANGED <<args, avars, i, j, wvars, mvars, allocation, tvars, cvars, entered,
                 failed, outcome>>

\* out_ctree: close_ctree; its code counts only when ret is still 0.
OutCtree ==
  /\ pc = "out_ctree"
  /\ \E c \in CloseCtreeResults :
       /\ close_ret' = c
       /\ ret' = IF ret = 0 /\ c # 0 THEN c ELSE ret
  /\ fs' = [fs EXCEPT !.open = FALSE, !.closed = TRUE]
  /\ pc' = "out_close"
  /\ UNCHANGED <<args, avars, i, j, wvars, mvars, allocation, tvars, cvars, entered,
                 failed, outcome>>

\* out_close: close every context's descriptor that is not negative.
OutClose ==
  /\ pc = "out_close"
  /\ closeCount' = CloseAll(closeCount, Devs)
  /\ reads' = reads \cup {ReadCtx(w, "fd") : w \in Devs}
  /\ pc' = "out_free"
  /\ UNCHANGED <<args, avars, i, j, ret, close_ret, wvars, joined, fvars, tvars,
                 cvars, entered, failed, outcome>>

\* btrfs_close_all_devices(): every device list registered in the process
\* is closed, whichever call opened it.
btrfs_close_all_devices(p) ==
  IF p.state = "open" THEN [p EXCEPT !.fds_open = FALSE] ELSE p

\* out_free: btrfs_close_all_devices, then the lock is taken back.
OutFree ==
  /\ pc = "out_free"
  /\ peer' = btrfs_close_all_devices(peer)
  /\ gil' = EndAllowThreads(gil)
  /\ pc' = "return"
  /\ UNCHANGED <<args, probed, fs_uuid, it, i, j, ret, close_ret, wvars, mvars,
                 fvars, tvars, cvars, entered, failed, outcome>>

\* OSError(errno = -ret) when ret is set, the result dict otherwise.
Return ==
  /\ pc = "return"
  /\ outcome' = IF ret # 0
                THEN [kind |-> "OSError", errno |-> -ret, uuid |-> <<>>,
                      num_bytes |-> 0]
                ELSE [outcome EXCEPT !.kind = "dict"]
  /\ gil' = PyApi(gil)
  /\ pc' = "done"
  /\ UNCHANGED <<args, probed, fs_uuid, peer, it, i, j, ret, close_ret, wvars,
                 mvars, fvars, tvars, cvars, entered, failed>>

\* ------------------------------------------------- a second call of mkfs
\* The other thread's call reaches open_ctree on its own devices, which
\* registers them in the process-wide device list.  It is followed in the
\* runs in which this call meets no error, from the moment this call is
\* about to run btrfs_close_all_devices.
PeerOpenCtree ==
  /\ pc = "out_free"
  /\ ret = 0
  /\ peer.state = "absent"
  /\ peer' = [peer EXCEPT !.state = "open", !.fds_open = TRUE]
  /\ UNCHANGED <<args, probed, fs_uuid, gil, it, pc, i, j, ret, close_ret,
                 wvars, mvars, fvars, tvars, cvars, entered, failed, outcome>>

\* What the other call can end in: its dict when its devices stayed open;
\* once they were closed and freed under it, its writes go to closed
\* descriptors and freed memory, and any ending is possible.
PeerOutcomes(p) == IF p.fds_open THEN {"dict"} ELSE {"dict", "OSError", "crash"}

\* The other call runs its remaining stages and returns.
PeerFinish ==
  /\ peer.state = "open"
  /\ \E o \in PeerOutcomes(peer) :
       peer' = [peer EXCEPT !.state = "done", !.outcome = o]
  /\ UNCHANGED <<args, probed, fs_uuid, gil, it, pc, i, j, ret, close_ret,
                 wvars, mvars, fvars, tvars, cvars, entered, failed, outcome>>

\* ------------------------------------------------------ SubvolumeIterator
\* A session either calls mkfs or works with one SubvolumeIterator object,
\* which PyType_GenericNew has made with iter = NULL and info_flag = 0.
\* self->iter is 0 for NULL or the number of the underlying iterator it points
\* to.  The calls of the object come from up to MaxThreads threads: a method
\* runs in one step while it holds the lock, and __init__ and next let the
\* other threads run while they are inside the library.
mkfs_vars ==
  <<args, probed, fs_uuid, gil, peer, pc, i, j, ret, close_ret, wvars, mvars,
    fvars, tvars, cvars, entered, failed, outcome>>

\* The most underlying iterators one object is given by its __init__ calls,
\* and the threads that call the object.
MaxInits == 2
MaxThreads == 2

\* The calls that have released the lock and not returned: __init__ inside
\* btrfs_util_create_subvolume_iterator (in_init) or back from it (init_ok,
\* init_err), next before it reads self->iter for the library call
\* (next_wait), inside the library with the pointer it read (in_next), or
\* back from it (next_back).
InFlight(o) ==
  o.in_init + o.init_ok + o.init_err + o.next_wait
    + BagCardinality(o.in_next) + o.next_back

\* The object exists, and a thread is free to call it.
CanCall(o) == o.phase \in {"unborn", "alive"} /\ InFlight(o) < MaxThreads

\* A method of the object begins: op names it, and it overlaps a call that
\* has not returned.
Called(o, name) ==
  [o EXCEPT !.op = name, !.overlap = @ \/ InFlight(o) # 0]

\* A library call that dereferences the iterator p.
UseIter(o, p) == [o EXCEPT !.dead_use = @ \/ p \in o.dead]

\* btrfs_util_destroy_subvolume_iterator(self->iter): the iterator is gone,
\* also for a next call that is inside the library with it.
DestroyIter(o) ==
  [UseIter(o, o.iter) EXCEPT !.destroys = Min(@ + 1, MaxInits + 1),
                             !.dead = @ \cup {o.iter},
                             !.dead_use = @ \/ BagIn(o.iter, o.in_next)]

\* A close that destroys the iterator and keeps the pointer.
IterClose_KeepPointer(o) ==
  [(IF o.iter # 0 THEN DestroyIter(o) ELSE o)
     EXCEPT !.result = "None"]

\* The body of SubvolumeIterator_close.
IterClose(o) ==
  [(IF o.iter # 0 THEN [DestroyIter(o) EXCEPT !.iter = 0] ELSE o)
     EXCEPT !.result = "None"]

\* The arguments of __init__ that PyArg_ParseTupleAndKeywords refuses under
\* "s|Kpp": a missing path, a value of the wrong type or a name that is not
\* in kw, a path with a NUL in it, a path that has no UTF-8 encoding.
RefusedInitArgs == {"unknown", "embedded_null", "surrogate"}

\* SubvolumeIterator_init up to the library call, at construction or called
\* again: "return -1" with the exception PyArg_ParseTupleAndKeywords has set
\* for arguments it refuses, the object as it was; else
\* self->info_flag = info, then Py_BEGIN_ALLOW_THREADS.
SubvolumeIterator_init ==
  /\ pc = "parse"
  /\ CanCall(it)
  /\ \/ \E k \in RefusedInitArgs :
          it' = [Called(it, "init") EXCEPT !.result = KeywordError(k)]
     \/ /\ it.made + it.in_init < MaxInits
        /\ \E info \in BOOLEAN :
             it' = [Called(it, "init") EXCEPT
                      !.phase = "alive", !.info_flag = info,
                      !.reinit = @ \/ it.phase = "alive",
                      !.in_init = @ + 1, !.result = "pending"]
  /\ UNCHANGED mkfs_vars

\* btrfs_util_create_subvolume_iterator(path, top, flags, &self->iter) comes
\* to its end without the lock: it stores a new iterator in self->iter,
\* whatever that held, or fails and leaves it as it was.
SubvolumeIterator_init_create ==
  /\ pc = "parse"
  /\ it.in_init > 0
  /\ \/ it' = [it EXCEPT !.in_init = @ - 1, !.init_ok = @ + 1,
                         !.iter = it.made + 1, !.made = @ + 1]
     \/ it' = [it EXCEPT !.in_init = @ - 1, !.init_err = @ + 1]
  /\ UNCHANGED mkfs_vars

\* SubvolumeIterator_init from Py_END_ALLOW_THREADS on: 0, or -1 with the
\* error set.
SubvolumeIterator_init_return ==
  /\ pc = "parse"
  /\ \/ /\ it.init_ok > 0
        /\ it' = [it EXCEPT !.init_ok = @ - 1, !.op = "init",
                            !.result = "None"]
     \/ /\ it.init_err > 0
        /\ it' = [it EXCEPT !.init_err = @ - 1, !.op = "init",
                            !.result = "error"]
  /\ UNCHANGED mkfs_vars

\* SubvolumeIterator_next, with or without info, up to the library call:
\* the test of self->iter, then Py_BEGIN_ALLOW_THREADS.
SubvolumeIterator_next ==
  /\ pc = "parse"
  /\ CanCall(it)
  /\ IF it.iter = 0
     THEN it' = [Called(it, "next") EXCEPT !.result = "ValueError"]
     ELSE it' = [Called(it, "next") EXCEPT !.next_wait = @ + 1,
                                            !.result = "pending"]
  /\ UNCHANGED mkfs_vars

\* The library call of next: its argument self->iter is read now, without the
\* lock, and is NULL when a close came after the test.
SubvolumeIterator_next_call ==
  /\ pc = "parse"
  /\ it.next_wait > 0
  /\ it' = [UseIter(it, it.iter) EXCEPT
              !.next_wait = @ - 1,
              !.in_next = @ (+) SetToBag({it.iter}),
              !.null_use = @ \/ it.iter = 0]
  /\ UNCHANGED mkfs_vars

\* The library call of next comes to its end.
SubvolumeIterator_next_back ==
  /\ pc = "parse"
  /\ \E p \in BagToSet(it.in_next) :
       it' = [it EXCEPT !.in_next = @ (-) SetToBag({p}),
                        !.next_back = @ + 1]
  /\ UNCHANGED mkfs_vars

\* SubvolumeIterator_next from Py_END_ALLOW_THREADS on: the result is built.
SubvolumeIterator_next_return ==
  /\ pc = "parse"
  /\ it.next_back > 0
  /\ \E r \in {"tuple", "StopIteration", "error"} :
       it' = [it EXCEPT !.next_back = @ - 1, !.op = "next", !.result = r]
  /\ UNCHANGED mkfs_vars

\* SubvolumeIterator_close.
SubvolumeIterator_close ==
  /\ pc = "parse"
  /\ CanCall(it)
  /\ it' = IterClose(Called(it, "close"))
  /\ UNCHANGED mkfs_vars

\* SubvolumeIterator_enter.
SubvolumeIterator_enter ==
  /\ pc = "parse"
  /\ CanCall(it)
  /\ it' = [Called(it, "enter") EXCEPT !.result = "self"]
  /\ UNCHANGED mkfs_vars

\* SubvolumeIterator_exit.
SubvolumeIterator_exit ==
  /\ pc = "parse"
  /\ CanCall(it)
  /\ it' = IterClose(Called(it, "exit"))
  /\ UNCHANGED mkfs_vars

\* SubvolumeIterator_get_fd.
SubvolumeIterator_get_fd ==
  /\ pc = "parse"
  /\ CanCall(it)
  /\ it' = IF it.iter = 0
           THEN [Called(it, "fd") EXCEPT !.result = "ValueError"]
           ELSE [UseIter(Called(it, "fd"), it.iter) EXCEPT !.result = "int"]
  /\ UNCHANGED mkfs_vars

\* SubvolumeIterator_dealloc: the last reference is gone, so no call of the
\* object is running.
SubvolumeIterator_dealloc ==
  /\ pc = "parse"
  /\ it.phase \in {"unborn", "alive"}
  /\ InFlight(it) = 0
  /\ it' = [(IF it.iter # 0 THEN DestroyIter(it) ELSE it)
              EXCEPT !.phase = "freed", !.op = "dealloc"]
  /\ UNCHANGED mkfs_vars

\* ------------------------------------------------------------ specification
Next ==
  \/ ParseArgs
  \/ SubvolumeIterator_init
  \/ SubvolumeIterator_init_create
  \/ SubvolumeIterator_init_return
  \/ SubvolumeIterator_next
  \/ SubvolumeIterator_next_call
  \/ SubvolumeIterator_next_back
  \/ SubvolumeIterator_next_return
  \/ SubvolumeIterator_close
  \/ SubvolumeIterator_enter
  \/ SubvolumeIterator_exit
  \/ SubvolumeIterator_get_fd
  \/ SubvolumeIterator_dealloc
  \/ PeerOpenCtree
  \/ PeerFinish
  \/ \E w \in Devs : WorkerOpen(w)
  \/ \E w \in Devs : WorkerPrepare(w)
  \/ ValidateDevices
  \/ AllocContexts
  \/ LaunchWorker
  \/ LaunchDone
  \/ CreateFailedJoinClose
  \/ CreateFailedDone
  \/ JoinWorker
  \/ JoinDone
  \/ CheckFirstDevice
  \/ MakeBtrfs
  \/ OpenCtree
  \/ MetaBegin
  \/ MetaChunk
  \/ MetaRemap
  \/ MetaCommit
  \/ StripeStart
  \/ StripeCreate
  \/ StripeCommit
  \/ RemapStart
  \/ RemapCreate
  \/ RemapCommit
  \/ DataStart
  \/ DataGroups
  \/ GlobalRoots
  \/ RootDir
  \/ DataCommit
  \/ AttachStart
  \/ AttachDevice
  \/ AttachDone
  \/ RaidSystem
  \/ RaidMetadata
  \/ RaidData
  \/ RaidCommit
  \/ RecowStart
  \/ Recow
  \/ Reloc
  \/ RecowCommit
  \/ RebuildUuidTree
  \/ CleanupStart
  \/ CleanupScan
  \/ CleanupCommit
  \/ Capture
  \/ OutCtree
  \/ OutClose
  \/ OutFree
  \/ Return

Spec == Init /\ [][Next]_vars

\* The same program on the calls of DeviceArgSets.
SpecDevices == InitDevices /\ [][Next]_vars
SpecProfiles == InitProfiles /\ [][Next]_vars
SpecChecked == InitChecked /\ [][Next]_vars

\* The calls of ScanArgSets with the scan of cleanup_temp_chunks going on
\* whenever it can: the thread that runs the loop keeps running.
SpecScan == InitScan /\ [][Next]_vars /\ WF_vars(CleanupScan)

\* ================================================================== claims
StageEnabled(s) ==
  CASE s = "stripe_root" -> RAID_STRIPE_TREE \in incompat_flags
    [] s = "remap_root" -> REMAP_TREE \in incompat_flags
    [] s = "data_reloc" -> REMAP_TREE \notin incompat_flags
    [] OTHER -> TRUE

\* The stages a run with these arguments goes through when nothing fails.
ExpectedStages == SelectSeq(StageOrder, StageEnabled)

IsPrefix(a, b) == Len(a) <= Len(b) /\ \A k \in 1 .. Len(a) : a[k] = b[k]

\* Everything the committed transactions hold.
CommittedMutations == UNION Range(committed)

\* C1: the stages of a run are entered in the order of the control flow,
\* each at most once and none skipped (the optional ones exactly when their
\* feature asks for them); once a stage has failed no further stage is
\* entered; and make_btrfs is entered only with every worker joined.
C1_StageOrder ==
  /\ IsPrefix(entered, ExpectedStages)
  /\ failed.stage # "none" => Last(entered) = failed.stage
  /\ "make_btrfs" \in Range(entered) => joined = Devs

C1_Witness ==
  /\ pc = "done"
  /\ entered = ExpectedStages
  /\ "stripe_root" \in Range(entered)
  /\ "data_reloc" \in Range(entered)

\* C2: when a stage returned a non-zero code, no later stage was entered and
\* the OSError carries that code (errno = -code) whatever close_ctree
\* returned; close_ctree's code is the error when no stage failed.
C2_FirstErrorSurfaced ==
  pc = "done" =>
    /\ failed.stage # "none" =>
         /\ outcome.kind = "OSError"
         /\ outcome.errno = -failed.code
         /\ Last(entered) = failed.stage
    /\ (failed.stage = "none" /\ close_ret # 0) =>
         /\ outcome.kind = "OSError"
         /\ outcome.errno = -close_ret

C2_Witness ==
  /\ pc = "done"
  /\ failed.stage = "metadata"
  /\ failed.code = -ENOSPC
  /\ close_ret = -EIO
  /\ outcome.errno = ENOSPC

\* The flag is set only with every stage through the cleanup done and none
\* failed.
FinalizedOnlyAfterCleanup ==
  fs.finalize_on_close = 1 =>
    /\ failed.stage = "none"
    /\ entered = ExpectedStages
    /\ pc \in {"out_ctree", "out_close", "out_free", "return", "done"}

\* The dict is returned exactly when no stage and not the close failed.
DictIffAllSucceeded ==
  pc = "done" =>
    /\ outcome.kind \in {"dict", "OSError"}
    /\ outcome.kind = "dict" <=> (failed.stage = "none" /\ close_ret = 0)
    /\ outcome.kind = "dict" => outcome.num_bytes = fs.total_bytes

\* C3 as stated: the flag is set only after every stage through the cleanup
\* succeeded, it stays unset on every failing run, and the dict is returned
\* exactly when all stages and the close succeeded.
C3_Claim ==
  /\ FinalizedOnlyAfterCleanup
  /\ (pc = "done" /\ outcome.kind = "OSError") => fs.finalize_on_close = 0
  /\ DictIffAllSucceeded

\* C3 amended: the flag stays unset on every run in which a stage failed; a
\* run that fails only in close_ctree has the flag set.
C3_Amended ==
  /\ FinalizedOnlyAfterCleanup
  /\ failed.stage # "none" => fs.finalize_on_close = 0
  /\ (pc = "done" /\ failed.stage = "none") => fs.finalize_on_close = 1
  /\ DictIffAllSucceeded

C3_Witness ==
  /\ pc = "done"
  /\ failed.stage = "none"
  /\ close_ret # 0
  /\ outcome.kind = "OSError"
  /\ fs.finalize_on_close = 1

\* C4: at every point of a run at most one transaction is open.
C4_OneTransaction == openTrans \in {0, 1}

C4_Witness ==
  /\ pc = "cleanup_scan"
  /\ openTrans = 1
  /\ Len(committed) >= 5

\* A step of worker w.
WorkerStep(w) == wpc[w] \in {"open", "prepare"} /\ wpc'[w] # wpc[w]

\* A worker's step writes its own context record and nothing else.
WorkerWritesOwn ==
  \A w \in Devs :
    WorkerStep(w) =>
      /\ \A x \in Devs \ {w} : ctx'[x] = ctx[x]
      /\ UNCHANGED <<args, avars, pc, i, j, ret, close_ret, mvars, fvars, tvars,
                     cvars, entered, failed, outcome>>

BootstrapAfterJoin ==
  "make_btrfs" \in Range(entered) =>
    joined = Devs /\ \A w \in Devs : wpc[w] = "exited"

\* C5 as stated: every read of a worker's result happens with all launched
\* workers joined, the bootstrap too, and a worker writes only its own record.
C5_Claim ==
  [][/\ \A r \in reads' : r.unjoined = {}
     /\ BootstrapAfterJoin'
     /\ WorkerWritesOwn]_vars

\* C5 amended: every read of a worker's result happens after that worker was
\* joined; a read made while another launched worker is still unjoined occurs
\* only on the thread-creation error path and is of the fd of a worker just
\* joined; the bootstrap and every read after the join loop happen with all
\* workers joined; a worker writes only its own record.
C5_Amended ==
  [][/\ \A r \in reads' :
          /\ r.ctx \notin r.unjoined
          /\ r.unjoined # {} => (failed'.at = "launch" /\ r.field = "fd")
     /\ BootstrapAfterJoin'
     /\ WorkerWritesOwn]_vars

C5_Witness ==
  /\ pc = "create_failed"
  /\ \E r \in reads : r.unjoined # {}
  /\ \E w \in Devs : wpc[w] \in {"open", "prepare"}

\* C6 as stated: once the preparation of any device has failed, make_btrfs
\* and every transaction are never reached, and the call ends in an OSError
\* with every worker joined.
C6_Claim ==
  (\E w \in Devs : wpc[w] = "exited" /\ ctx[w].ret # 0) =>
    /\ ~fs.superblock
    /\ openTrans = 0
    /\ committed = <<>>
    /\ pc = "done" => outcome.kind = "OSError"

\* The attach loop found prepare_ctx[i].ret set.
DetectedAtAttach ==
  failed.stage = "attach" /\ failed.at = "attach" /\ ctx[i].ret # 0

\* C7: the result of a device beyond the first is read only in the attach
\* stage; when the attach loop finds such a device failed, make_btrfs and the
\* metadata, optional-root and data/root-directory transactions are already
\* committed and the OSError carries that device's code; and a run whose
\* first device prepared but a later one failed never succeeds.
C7_LateDetection ==
  /\ \A r \in reads :
       (r.field = "ret" /\ r.ctx >= 1) => "attach" \in Range(entered)
  /\ DetectedAtAttach =>
       /\ i >= 1
       /\ \A w \in 1 .. (i - 1) : ctx[w].ret = 0
       /\ fs.superblock
       /\ {"bg_metadata", "root_dir"} \subseteq CommittedMutations
       /\ RAID_STRIPE_TREE \in incompat_flags =>
            "stripe_root" \in CommittedMutations
       /\ REMAP_TREE \in incompat_flags => "remap_root" \in CommittedMutations
       /\ ret = ctx[i].ret
       /\ pc = "done" => (outcome.kind = "OSError" /\ outcome.errno = -ctx[i].ret)
  /\ (pc = "done" /\ \E w \in Devs : ctx[w].ret # 0) => outcome.kind = "OSError"

C7_Witness ==
  /\ pc = "done"
  /\ DetectedAtAttach
  /\ ctx[0].ret = 0
  /\ Len(committed) >= 3
  /\ outcome.errno = -ctx[1].ret

\* The descriptors the workers opened.
Opened == {ctx[x].fd : x \in {w \in Devs : ctx[w].fd >= 3}}

\* C8: mkfs closes no descriptor that no worker opened, and when it returns
\* every descriptor a worker opened has been closed.
C8_DescriptorsClosed ==
  /\ \A f \in FdValues : closeCount[f] > 0 => f \in Opened
  /\ pc = "done" => \A f \in Opened : closeCount[f] >= 1

C8_Witness ==
  /\ pc = "done"
  /\ failed.at = "launch"
  /\ i = 2
  /\ ctx[0].fd >= 3
  /\ closeCount[ctx[0].fd] = 1
  /\ ctx[1].fd = -1
  /\ ctx[2].fd = 0

\* C9 as stated: after a successful run every device path is registered, so
\* the device count is the number of devices given.
C9_Claim ==
  (pc = "done" /\ outcome.kind = "dict") =>
    /\ \A w \in Devs : args.under[w] \in Range(fs.devices)
    /\ Len(fs.devices) = Cardinality({args.under[w] : w \in Devs})

\* C10: an attach turn for a device already registered calls no
\* btrfs_add_to_fsid and leaves the registered devices as they were.
C10_NoReAttach ==
  [][(/\ pc = "attach"
      /\ i < args.n
      /\ ctx[i].ret = 0
      /\ args.under[i] \in Range(fs.devices))
     => (fs'.devices = fs.devices /\ fs'.add_calls = fs.add_calls)]_vars

C10_Witness ==
  /\ pc = "attach"
  /\ i = 2
  /\ ret = 1
  /\ args.under[1] = 0
  /\ fs.devices = <<0>>
  /\ fs.add_calls = {}

\* The block groups the mkfs stages created: all but the bootstrap system
\* group make_btrfs lays down at offset 0.
StageGroups == {b \in fs.bgs : b.start # 0}

\* C11 as stated: in mixed mode every block group the stages create has both
\* DATA and METADATA among its type bits.
C11_Claim ==
  args.mixed => \A b \in StageGroups : {DATA, METADATA} \subseteq b.flags

\* C11 amended: in mixed mode no block group the stages create is DATA only
\* or METADATA only; a group that is not DATA|METADATA is the SYSTEM group of
\* the RAID planner (made when the metadata profile is not 0, with the bits
\* of the metadata profile word) or the remap group (made with the
\* remap-tree feature).
C11_Amended ==
  args.mixed =>
    \A b \in StageGroups :
      \/ {DATA, METADATA} \subseteq b.flags
      \/ /\ b.flags = {SYSTEM} \cup meta_profile
         /\ meta_profile # {}
      \/ /\ b.flags = {METADATA_REMAP}
         /\ REMAP_TREE \in incompat_flags

C11_Witness ==
  /\ args.mixed
  /\ pc = "raid_commit"
  /\ \E b \in StageGroups : b.flags = {METADATA, DATA, RAID1}
  /\ \E b \in StageGroups : b.flags = {SYSTEM, RAID1}
  /\ \E b \in StageGroups : b.flags = {METADATA, DATA}

\* The final profile the stages chose for a block group's type.
FinalProfile(b) ==
  LET t == b.flags \cap BTRFS_BLOCK_GROUP_TYPE_MASK
  IN IF t = {DATA} THEN data_prof \cap BTRFS_BLOCK_GROUP_PROFILE_MASK
     ELSE meta_profile \cap BTRFS_BLOCK_GROUP_PROFILE_MASK

\* cleanup_temp_chunks has returned 0 to pybtrfs_mkfs.
CleanupSucceeded ==
  /\ "cleanup" \in Range(entered)
  /\ failed.stage = "none"
  /\ pc \in {"capture", "out_ctree", "out_close", "out_free", "return", "done"}

\* C12 as stated: once cleanup_temp_chunks has succeeded no DATA, METADATA,
\* DATA|METADATA or SYSTEM block group is left that is empty and whose
\* profile differs from the final profile of its type.
C12_Claim ==
  CleanupSucceeded =>
    \A b \in fs.bgs :
      (b.flags \cap BTRFS_BLOCK_GROUP_TYPE_MASK) # {} =>
        ~(b.used = 0 /\
          (b.flags \cap BTRFS_BLOCK_GROUP_PROFILE_MASK) # FinalProfile(b))

\* C13: when the byte count asked for is not 0 and exceeds the size probed
\* for the first device, make_btrfs is never run, and a call that got as far
\* as joining its workers ends in OSError(ENOSPC).
C13_OversizeRejected ==
  (/\ wpc[0] = "exited"
   /\ ctx[0].ret = 0
   /\ args.byte_count # 0
   /\ args.byte_count > ctx[0].dev_byte_count)
  => /\ ~fs.superblock
     /\ "make_btrfs" \notin Range(entered)
     /\ (pc = "done" /\ joined = Devs) =>
          (outcome.kind = "OSError" /\ outcome.errno = ENOSPC)

C13_Witness ==
  /\ pc = "done"
  /\ failed.at = "check_first"
  /\ ctx[0].ret = 0
  /\ args.byte_count > ctx[0].dev_byte_count
  /\ outcome.errno = ENOSPC
  /\ ~fs.superblock

\* C14 as stated: without the force flag a call on a device that already
\* carries a filesystem signature never gets past the device check, so no
\* device is prepared and no tree is mutated; with the force flag no device
\* is probed.
C14_Claim ==
  /\ (~args.force /\ args.signature /\ "validate" \in Range(entered)) =>
       /\ pc \in {"validate", "out_free", "return", "done"}
       /\ \A w \in Devs : wpc[w] = "idle"
       /\ ~fs.superblock
       /\ pc = "done" => outcome.kind = "OSError"
  /\ args.force => probed = {}

\* The canonical form of a UUID string: 36 characters, a dash at the 9th,
\* 14th, 19th and 24th, a hexadecimal digit everywhere else.
IsHexDigit(c) == c \in {"0", "4", "5", "9", "a", "c", "f", "A", "C", "F"}
WellFormedUuid(u) ==
  /\ Len(u) = 36
  /\ \A k \in 1 .. 36 :
       IF k \in {9, 14, 19, 24} THEN u[k] = "-" ELSE IsHexDigit(u[k])

\* The value of a hexadecimal digit, and the 16 bytes of a canonical string.
HexValue(c) ==
  CASE c = "0" -> 0 [] c = "4" -> 4 [] c = "5" -> 5 [] c = "9" -> 9
    [] c \in {"a", "A"} -> 10 [] c \in {"c", "C"} -> 12
    [] c \in {"f", "F"} -> 15
IsNotDash(c) == c # "-"
UuidBytes(u) ==
  LET d == SelectSeq(u, IsNotDash)
  IN [k \in 1 .. 16 |-> 16 * HexValue(d[2 * k - 1]) + HexValue(d[2 * k])]

\* The arguments fail one of the checks made before any work.
InvalidArgs ==
  \/ args.n < 1
  \/ \E d \in Devs : args.items[d] # "str"
  \/ args.label_len > 255
  \/ args.uuid # <<>> /\ ~WellFormedUuid(args.uuid)

\* C15: a call with an empty device list, a device argument that is not a
\* string, a label longer than 255 bytes or a malformed UUID is rejected at
\* once, with ValueError or TypeError (UnicodeEncodeError when the argument
\* is a str that has no UTF-8 encoding) or, when the array of device paths
\* cannot be allocated, with MemoryError, or it has ended even earlier
\* because its keyword arguments were refused or the empty tuple could not
\* be made; at that point no device has been probed or opened, no worker
\* started and nothing written; a call with valid arguments is not rejected
\* as invalid.
C15_RejectedBeforeIO ==
  /\ (pc # "parse" /\ InvalidArgs) =>
       pc \in {"refused", "rejected", "no_memory"}
  /\ pc = "refused" =>
       \/ outcome.kind = "MemoryError"
       \/ args.keywords # "ok" /\ outcome.kind = KeywordError(args.keywords)
  /\ pc = "rejected" =>
       /\ InvalidArgs
       /\ args.keywords = "ok"
       /\ outcome.kind \in {"ValueError", "TypeError", "UnicodeEncodeError"}
       /\ outcome.kind = "UnicodeEncodeError" =>
            \E d \in Devs : args.items[d] = "surrogate"
  /\ pc = "no_memory" => (args.n >= 1 /\ outcome.kind = "MemoryError")
  /\ pc \in {"refused", "rejected", "no_memory"} =>
       /\ probed = {}
       /\ \A w \in Devs : wpc[w] = "idle" /\ ctx[w].fd = 0
       /\ \A f \in FdValues : closeCount[f] = 0
       /\ ~fs.superblock /\ fs.bgs = {}
       /\ openTrans = 0 /\ pending = {} /\ committed = <<>>
       /\ entered = <<>>

C15_Witness ==
  /\ pc = "rejected"
  /\ args.n = 2
  /\ args.items[0] = "str"
  /\ args.items[1] = "str"
  /\ args.label_len = 256
  /\ args.uuid = BaseUuid
  /\ outcome.kind = "ValueError"

\* C16: when a valid UUID string is supplied, it is the string handed to
\* make_btrfs and, character for character, the string a successful call
\* returns; only without a supplied string does make_btrfs get an empty one
\* and generate the UUID that is returned.
C16_UuidPreserved ==
  /\ fs.superblock => fs.uuid_in = args.uuid
  /\ (pc = "done" /\ outcome.kind = "dict") =>
       IF args.uuid # <<>>
       THEN outcome.uuid = args.uuid /\ fs.uuid = args.uuid
       ELSE outcome.uuid = GeneratedUuid /\ fs.uuid_in = <<>>

C16_Witness ==
  /\ pc = "done"
  /\ outcome.kind = "dict"
  /\ args.uuid = [BaseUuid EXCEPT ![1] = "F"]
  /\ outcome.uuid = args.uuid

\* C17: uuid_parse accepts a string exactly when it is canonical (36
\* characters, dashes at positions 8, 13, 18 and 23 counted from 0, a
\* hexadecimal digit everywhere else); on acceptance it yields the 16 bytes
\* of the 16 consecutive hex pairs, and it returns non-zero for every other
\* string. The call goes on with a supplied string exactly when it accepts it.
\* What uuid_parse yields depends on the string alone, which no step changes,
\* so it is compared with the canonical form where the call starts, and with
\* the decision where the call has just been rejected or has just gone on.
C17_UuidParse ==
  args.uuid # <<>> =>
    /\ pc = "parse" =>
         LET r == uuid_parse(args.uuid)
         IN /\ r.ret = 0 <=> WellFormedUuid(args.uuid)
            /\ r.ret = 0 => r.uu = UuidBytes(args.uuid)
    /\ (/\ pc \in {"rejected", "validate"}
        /\ args.n >= 1
        /\ \A d \in Devs : args.items[d] = "str"
        /\ args.label_len <= 255) =>
         (pc = "rejected" <=> uuid_parse(args.uuid).ret # 0)

C17_Witness ==
  /\ pc = "validate"
  /\ args.uuid = [BaseUuid EXCEPT ![36] = "C"]
  /\ fs_uuid = args.uuid
  /\ uuid_parse(args.uuid).uu[16] = 252

\* The profiles the selection rule gives for this call's arguments.
SelectedMetadata ==
  CASE ~args.metadata_profile.neg -> args.metadata_profile.bits
    [] args.metadata_profile.neg /\ args.mixed -> {}
    [] args.metadata_profile.neg /\ ~args.mixed /\ args.n = 1 -> {DUP}
    [] args.metadata_profile.neg /\ ~args.mixed /\ args.n > 1 -> {RAID1}
SelectedData ==
  CASE args.data_profile # {} -> args.data_profile
    [] args.data_profile = {} /\ ~args.mixed /\ args.n > 1 ->
         BTRFS_MKFS_DEFAULT_DATA_MULTI_DEVICE
    [] OTHER -> {}

\* C18: the effective metadata profile is the one given, or for a negative
\* word DUP on one device, RAID1 on several and 0 in mixed mode; the
\* effective data profile is the one given, or for 0 the multi-device default
\* when not mixed on several devices and 0 otherwise; and these are the
\* profiles of the groups the RAID planner has created when it is done.
C18_ProfileSelection ==
  /\ meta_profile = SelectedMetadata
  /\ data_prof = SelectedData
  /\ pc = "raid_commit" =>
       /\ (\E b \in StageGroups : SYSTEM \in b.flags) <=> SelectedMetadata # {}
       /\ \A b \in StageGroups :
            /\ SYSTEM \in b.flags => b.flags = {SYSTEM} \cup SelectedMetadata
            /\ (b.flags \cap BTRFS_BLOCK_GROUP_PROFILE_MASK) \in
                 {{}, SelectedMetadata, SelectedData}
       /\ (\E b \in StageGroups : b.flags = {DATA} \cup SelectedData)
            <=> ~args.mixed

C18_Witness ==
  /\ pc = "raid_commit"
  /\ args.metadata_profile.neg
  /\ args.data_profile = {}
  /\ args.n = 2
  /\ ~args.mixed
  /\ \E b \in StageGroups : b.flags = {SYSTEM, RAID1}
  /\ \E b \in StageGroups : b.flags = {METADATA, RAID1}

\* A chunk allocation of the metadata step, the data step or the RAID
\* planner has reported out-of-space.
ChunkOutOfSpace ==
  /\ failed.code = -ENOSPC
  /\ failed.at \in {"meta_chunk", "meta_remap", "data_groups", "raid_system",
                    "raid_metadata", "raid_data"}

\* C19 as stated: after a chunk allocation reported out-of-space the
\* transaction it ran in is aborted (no transaction is open, its mutations
\* are dropped), the committed transactions are those committed before, and
\* the call ends in OSError(ENOSPC).
C19_Claim ==
  ChunkOutOfSpace =>
    /\ openTrans = 0
    /\ pending = {}
    /\ pc = "done" => (outcome.kind = "OSError" /\ outcome.errno = ENOSPC)

\* C20: once recow_roots has returned success, every leaf of every walked
\* tree (fs, root, chunk and device tree, the block-group and raid-stripe
\* trees when present, every global root) has a generation not older than
\* the transaction that created the final RAID groups, which is the last
\* one committed before the recow transaction started.
C20_RecowedLeaves ==
  pc = "reloc" =>
    \A t \in TreeNames : \A k \in DOMAIN fs.leaves[t] :
      fs.leaves[t][k] >= generation

\* A recow pass has returned success on a file system with a raid-stripe
\* tree, a block-group tree and global roots, and every leaf is of the recow
\* transaction, which is the one after the RAID-groups transaction.
C20_Witness ==
  /\ pc = "reloc"
  /\ "recow" \in pending
  /\ Len(fs.leaves["stripe"]) = LeavesPerTree
  /\ Len(fs.leaves["block_group"]) = LeavesPerTree
  /\ Len(fs.leaves["extent"]) = LeavesPerTree
  /\ transid = generation + 1
  /\ \A t \in TreeNames : \A k \in DOMAIN fs.leaves[t] :
       fs.leaves[t][k] = transid

\* C21: the interpreter lock is released once, before the first blocking
\* step (no device probed, no worker started, nothing written while it was
\* never released), and taken back exactly once on every exit path; no
\* Python object API is called while it is released, and the error or the
\* result object exists only after it was taken back.
C21_GilDiscipline ==
  /\ gil.releases <= 1
  /\ gil.acquires <= gil.releases
  /\ gil.held <=> gil.acquires = gil.releases
  /\ ~gil.api_unlocked
  /\ gil.releases = 0 =>
       /\ probed = {}
       /\ \A w \in Devs : wpc[w] = "idle"
       /\ ~fs.superblock
  /\ pc = "done" => gil.releases = 1 /\ gil.acquires = 1
  /\ outcome.kind \in {"OSError", "dict"} => gil.held /\ gil.acquires = 1
  /\ ~gil.held =>
       pc \notin {"parse", "refused", "rejected", "no_memory", "return",
                  "done"}

\* A call that left through an error goto has returned its OSError with the
\* lock released once and taken back once.
C21_Witness ==
  /\ pc = "done"
  /\ outcome.kind = "OSError"
  /\ failed.at \in {"validate", "check_first", "meta_chunk"}
  /\ gil = [held |-> TRUE, releases |-> 1, acquires |-> 1,
            api_unlocked |-> FALSE]

\* C22 as stated: a second mkfs call of the process, on other devices,
\* keeps its devices open while it uses them and ends as it would alone,
\* with its result dict.
C22_Claim ==
  /\ peer.state = "open" => peer.fds_open
  /\ peer.state = "done" => peer.outcome = "dict"

\* The object was constructed with an underlying iterator: only then does
\* self->iter ever differ from NULL or a destroy call happen.
IterConstructed == it.made > 0

\* The calls the claim is about: __init__ ran once, at construction, and the
\* calls came one after another, none while a next call was in the library.
OneConstructionInSequence == ~it.reinit /\ ~it.overlap

\* C23: after a successful construction, whatever next, fd, close, __enter__
\* and __exit__ calls are made before deallocation, the underlying iterator
\* is destroyed at most once and exactly once when the object is gone; close
\* and __exit__ leave the iterator closed and return None every time; once
\* closed, next and fd raise ValueError; and no library call is ever made
\* with the destroyed iterator.
C23_IteratorLifecycle ==
  OneConstructionInSequence =>
    /\ it.destroys <= 1
    /\ ~it.dead_use
    /\ it.phase = "freed" /\ IterConstructed => it.destroys = 1
    /\ it.phase = "alive" /\ IterConstructed =>
         (it.iter = 0 <=> it.destroys = 1)
    /\ it.op \in {"close", "exit"} => it.iter = 0 /\ it.result = "None"
    /\ it.op \in {"next", "fd"} /\ it.iter = 0 => it.result = "ValueError"
    /\ it.op \in {"next", "fd"} /\ it.iter # 0 => it.result # "ValueError"

\* A closed iterator was asked for its next item, refused, and the object
\* was then deallocated: one destroy call in all.
C23_Witness ==
  /\ OneConstructionInSequence
  /\ it.phase = "freed"
  /\ it.destroys = 1
  /\ it.result = "ValueError"
  /\ it.op = "dealloc"

\* The groups create_raid_groups has made, as flag sets in creation order:
\* they are the youngest groups, and a younger group starts further out.
RaidMade == pending \cap {"rg_system", "rg_metadata", "rg_data"}
RaidSeq ==
  LET n == Cardinality(RaidMade)
  IN [k \in 1 .. n |->
        (CHOOSE b \in fs.bgs :
           Cardinality({c \in fs.bgs : c.start > b.start}) = n - k).flags]

\* The sequence the RAID planner is to create for the profiles in force.
ExpectedRaid ==
  (IF meta_profile # {}
   THEN <<{SYSTEM} \cup meta_profile,
          (IF args.mixed THEN {METADATA, DATA} ELSE {METADATA})
             \cup meta_profile>>
   ELSE <<>>)
  \o (IF ~args.mixed /\ data_prof # {}
      THEN <<{DATA} \cup data_prof>> ELSE <<>>)

\* C24: create_raid_groups makes the SYSTEM group at the metadata profile,
\* then the METADATA (mixed: DATA|METADATA) group at the metadata profile,
\* then, when not mixed and the data profile is set, the DATA group at the
\* data profile; with a zero metadata profile the first two are left out;
\* when it returns success all of them exist, and after a failing creation
\* the groups before the failing one exist and none after it (the failing
\* call's own group exists only when the call made it and then refused its
\* type mask).
C24_RaidGroupOrder ==
  /\ pc \in {"raid_metadata", "raid_data", "raid_commit"}
       => IsPrefix(RaidSeq, ExpectedRaid)
  /\ pc = "raid_commit" => RaidSeq = ExpectedRaid
  /\ failed.stage = "raid_groups" =>
       LET before == CASE failed.at = "raid_system" -> 0
                       [] failed.at = "raid_metadata" -> 1
                       [] OTHER -> Len(ExpectedRaid) - 1
       IN /\ IsPrefix(RaidSeq, ExpectedRaid)
          /\ \/ Len(RaidSeq) = before
             \/ /\ Len(RaidSeq) = before + 1
                /\ failed.code = -EINVAL
                /\ ~RecognizedType(RaidSeq[before + 1]
                                     \cap BTRFS_BLOCK_GROUP_TYPE_MASK)

\* create_raid_groups has returned success after creating all three groups.
C24_Witness ==
  /\ pc = "raid_commit"
  /\ Len(RaidSeq) = 3
  /\ RaidSeq = ExpectedRaid

\* The ledger entry that stands for the groups of a type mask.
EntryOf(flags) ==
  LET type == flags \cap BTRFS_BLOCK_GROUP_TYPE_MASK
  IN CASE type = {DATA} -> "data"
       [] type = {METADATA} -> "metadata"
       [] type = {SYSTEM} -> "system"
       [] type = {METADATA, DATA} -> "mixed"
       [] OTHER -> "none"

\* The bytes of the block groups in bgs.
RECURSIVE GroupBytes(_)
GroupBytes(bgs) ==
  IF bgs = {} THEN 0
  ELSE LET b == CHOOSE c \in bgs : TRUE
       IN b.size + GroupBytes(bgs \ {b})

\* Every one of the four type entries holds what was added for the groups
\* of its type that exist.
LedgerBalanced(f, alloc) ==
  \A e \in {"data", "metadata", "system", "mixed"} :
    alloc[e] = GroupBytes({b \in f.bgs : EntryOf(b.flags) = e})

\* C25: a step of cleanup_temp_chunks that removes a block group lowers the
\* ledger entry of that group's type by the group's size, which is what was
\* added when the group was created (so the entries keep matching the
\* groups that exist), leaves the other entries as they were, and no entry
\* ever goes below zero.
C25_LedgerDecrement ==
  [][/\ (pc = "cleanup_scan" /\ fs'.bgs # fs.bgs) =>
          /\ LedgerBalanced(fs, allocation)
          /\ \E b \in fs.bgs :
               /\ fs'.bgs = fs.bgs \ {b}
               /\ EntryOf(b.flags) # "none"
               /\ \A e \in DOMAIN allocation :
                    allocation'[e] =
                      IF e = EntryOf(b.flags) THEN allocation[e] - b.size
                      ELSE allocation[e]
          /\ LedgerBalanced(fs', allocation')
     /\ \A e \in DOMAIN allocation : allocation'[e] >= 0]_vars

\* The scan has removed the bootstrap groups of a mixed file system whose
\* final profile differs from theirs, and the ledger matches what is left.
C25_Witness ==
  /\ pc = "cleanup_commit"
  /\ cleanErr = 0
  /\ args.mixed
  /\ "remove_group" \in pending
  /\ \A b \in fs.bgs : b.start # 0
  /\ LedgerBalanced(fs, allocation)
  /\ allocation.mixed > 0

\* The mutation labels of the final RAID groups, and the ones the profiles
\* in force ask for.
RaidLabels == {"rg_system", "rg_metadata", "rg_data"}
ExpectedRaidLabels ==
  (IF meta_profile # {} THEN {"rg_system", "rg_metadata"} ELSE {})
    \cup (IF ~args.mixed /\ data_prof # {} THEN {"rg_data"} ELSE {})

\* C26: from the start of the attach loop to the end of create_raid_groups
\* nothing is committed, and every committed transaction that registers an
\* extra device holds all the final RAID groups, while every committed
\* transaction that holds a final RAID group registers every extra device
\* the run attached.
C26_AttachRaidAtomic ==
  [][/\ pc \in {"attach", "raid_system", "raid_metadata", "raid_data"}
          => committed' = committed
     /\ \A k \in DOMAIN committed' :
          LET T == committed'[k]
          IN /\ "add_device" \in T => T \cap RaidLabels = ExpectedRaidLabels
             /\ T \cap RaidLabels # {} =>
                  /\ T \cap RaidLabels = ExpectedRaidLabels
                  /\ "add_device" \in T <=> Len(fs'.devices) > 1]_vars

\* The transaction that registered the second device and created the three
\* RAID groups has been committed as one.
C26_Witness ==
  /\ pc = "recow_start"
  /\ {"add_device", "rg_system", "rg_metadata", "rg_data"}
       \subseteq Last(committed)
  /\ Len(fs.devices) = 2

\* C27 as stated: the transaction that creates the data-relocation tree
\* holds nothing else, and neither does the one that rebuilds the UUID
\* index.
C27_Claim ==
  \A k \in DOMAIN committed :
    /\ "data_reloc" \in committed[k] => committed[k] = {"data_reloc"}
    /\ "uuid_tree" \in committed[k] => committed[k] = {"uuid_tree"}

\* C27 as the code has it: the data-relocation tree is created in the
\* transaction of the recow pass, which holds these two and nothing else;
\* the UUID index rebuild is a transaction of its own.
C27_Amended ==
  \A k \in DOMAIN committed :
    /\ "data_reloc" \in committed[k] => committed[k] = {"recow", "data_reloc"}
    /\ "uuid_tree" \in committed[k] => committed[k] = {"uuid_tree"}

\* The recow transaction with the data-relocation tree and the UUID index
\* rebuild have both been committed.
C27_Witness ==
  /\ pc = "cleanup_start"
  /\ \E k \in DOMAIN committed : "data_reloc" \in committed[k]
  /\ Last(committed) = {"uuid_tree"}

\* C28: a successful run has created exactly one of the remap tree and the
\* data-relocation tree: the remap tree, recorded in the superblock and
\* committed, exactly when the remap feature is set, the data-relocation
\* tree exactly when it is not.
C28_RemapOrReloc ==
  (pc = "done" /\ outcome.kind = "dict") =>
    /\ "remap" \in fs.roots <=> REMAP_TREE \in incompat_flags
    /\ "data_reloc" \in fs.roots <=> REMAP_TREE \notin incompat_flags
    /\ "remap" \in fs.roots =>
         fs.sb_remap_root /\ "remap_root" \in CommittedMutations
    /\ "remap_root" \in CommittedMutations <=> "data_reloc" \notin CommittedMutations

\* A run with the remap feature has succeeded: remap tree, no
\* data-relocation tree.
C28_Witness ==
  /\ pc = "done"
  /\ outcome.kind = "dict"
  /\ REMAP_TREE \in incompat_flags
  /\ "remap" \in fs.roots
  /\ "data_reloc" \notin fs.roots

\* The type word create_raid_groups hands to create_one_raid_group at the
\* call the program counter stands at, and whether the call is made.
RaidRequest ==
  CASE pc = "raid_system" -> {SYSTEM} \cup meta_profile
    [] pc = "raid_metadata" ->
         (IF args.mixed THEN {METADATA, DATA} ELSE {METADATA})
           \cup meta_profile
    [] OTHER -> {DATA} \cup data_prof
RaidRequested ==
  \/ pc \in {"raid_system", "raid_metadata"} /\ meta_profile # {}
  \/ pc = "raid_data" /\ ~args.mixed /\ data_prof # {}

\* C29: a call of create_one_raid_group that allocates a chunk adds the
\* chunk's size to the one ledger entry of the requested type mask (DATA,
\* METADATA, SYSTEM or METADATA|DATA) and leaves the other entries as they
\* were; for another type mask no entry changes, the call returns -EINVAL
\* once the chunk is allocated, and mkfs ends with an OSError without
\* going on to the commit.
C29_LedgerClassification ==
  [][/\ (pc \in {"raid_system", "raid_metadata", "raid_data"}
         /\ RaidRequested) =>
          LET t == RaidRequest \cap BTRFS_BLOCK_GROUP_TYPE_MASK
          IN IF t \in {{DATA}, {METADATA}, {SYSTEM}, {METADATA, DATA}}
             THEN \/ /\ allocation' = allocation
                     /\ fs' = fs
                     /\ ret' \in AllocChunkResults \ {0}
                  \/ \E size \in ChunkSizes :
                       /\ allocation' =
                            [allocation EXCEPT ![EntryOf(t)] = @ + size]
                       /\ fs'.bgs \ fs.bgs \subseteq
                            {b \in fs'.bgs : b.size = size
                                            /\ b.flags = RaidRequest}
             ELSE /\ allocation' = allocation
                  /\ ret' # 0
                  /\ pc' = "out_ctree"
                  /\ failed'.stage = "raid_groups"
                  /\ fs' # fs => ret' = -EINVAL
     /\ (pc' = "done" /\ failed'.stage = "raid_groups") =>
          /\ outcome'.kind = "OSError"
          /\ "commit_recow" \notin Range(entered')
          /\ failed'.code = -EINVAL => outcome'.errno = EINVAL]_vars

\* mkfs has ended after the RAID planner asked for a SYSTEM|DATA group: the
\* group was made, its size went to no ledger entry, and the call failed.
C29_Witness ==
  /\ pc = "done"
  /\ failed.stage = "raid_groups"
  /\ failed.at = "raid_system"
  /\ failed.code = -EINVAL
  /\ \E b \in fs.bgs : {SYSTEM, DATA} \subseteq b.flags
  /\ allocation.system = SystemGroupSize
  /\ outcome.kind = "OSError"

\* The ledger "struct mkfs_allocation allocation = { 0 }" starts from.
ZeroLedger == [data |-> 0, metadata |-> 0, mixed |-> 0, system |-> 0,
               remap |-> 0]

\* C30: the metadata step starts from a ledger of zeros; it records in
\* system the fixed system group size, or the zone size when the file system
\* is zoned, before any chunk of the step exists; and when it returns
\* success system is still that size, the one chunk it allocated is in mixed
\* (mixed mode, metadata 0) or in metadata (else, mixed 0), remap is the
\* remap chunk's size with the remap-tree feature and 0 without it, and
\* data is 0.
C30_MetadataLedger ==
  [][/\ pc = "meta_begin" =>
          /\ allocation = ZeroLedger
          /\ pc' = "meta_chunk" =>
               /\ allocation' =
                    [ZeroLedger EXCEPT
                       !.system = IF fs.zoned THEN fs.zone_size
                                  ELSE SystemGroupSize]
               /\ fs.zoned => fs.zone_size = ZoneSize
               /\ {b \in fs'.bgs : b.start # 0} = {}
     /\ (pc = "meta_commit" /\ pc' = AfterMetadata) =>
          LET made == {b \in fs'.bgs : b.start # 0}
              main == {b \in made : METADATA \in b.flags}
              remap == {b \in made : b.flags = {METADATA_REMAP}}
              mixed == MIXED_GROUPS \in incompat_flags
          IN /\ made = main \cup remap
             /\ Cardinality(main) = 1
             /\ \A b \in main :
                  /\ b.flags = IF mixed THEN {METADATA, DATA} ELSE {METADATA}
                  /\ allocation'.mixed = IF mixed THEN b.size ELSE 0
                  /\ allocation'.metadata = IF mixed THEN 0 ELSE b.size
             /\ Cardinality(remap) =
                  IF REMAP_TREE \in incompat_flags THEN 1 ELSE 0
             /\ allocation'.remap = GroupBytes(remap)
             /\ allocation'.remap # 0 <=> REMAP_TREE \in incompat_flags
             /\ allocation'.system = IF fs'.zoned THEN fs'.zone_size
                                     ELSE SystemGroupSize
             /\ allocation'.data = 0]_vars

\* The metadata step of a zoned mixed file system with the remap-tree
\* feature has returned success and the next stage has not touched the
\* ledger yet: system holds the zone size, not the fixed size.
C30_Witness ==
  /\ pc = AfterMetadata
  /\ entered[Len(entered)] = "metadata"
  /\ failed.stage = "none"
  /\ MIXED_GROUPS \in incompat_flags
  /\ REMAP_TREE \in incompat_flags
  /\ fs.zoned
  /\ ZoneSize # SystemGroupSize
  /\ allocation = [data |-> 0, metadata |-> 0, mixed |-> 2,
                    system |-> ZoneSize, remap |-> 2]

\* The block group one turn of the scan looks at: the first at or past key.
Examined ==
  CHOOSE b \in fs.bgs :
    /\ b.start >= key
    /\ \A d \in fs.bgs : d.start >= key => b.start <= d.start

\* A temporary group: empty, of type DATA, METADATA, SYSTEM or
\* DATA|METADATA, with a profile other than the final profile of its type.
Temporary(b) ==
  /\ b.used = 0
  /\ RecognizedType(b.flags \cap BTRFS_BLOCK_GROUP_TYPE_MASK)
  /\ (b.flags \cap BTRFS_BLOCK_GROUP_PROFILE_MASK) # FinalProfile(b)

\* C31 as stated: a turn of the scan that goes on to the next turn has
\* removed the block group it looked at if and only if that group is
\* temporary, and has left every other group as it was.
C31_Claim ==
  [][(/\ pc = "cleanup_scan"
      /\ pc' = "cleanup_scan"
      /\ \E b \in fs.bgs : b.start >= key) =>
        /\ fs'.bgs = IF Temporary(Examined) THEN fs.bgs \ {Examined}
                     ELSE fs.bgs]_vars

\* The same, for the calls that are not in mixed mode.
C31_NotMixed ==
  [][(/\ pc = "cleanup_scan"
      /\ pc' = "cleanup_scan"
      /\ ~args.mixed
      /\ \E b \in fs.bgs : b.start >= key) =>
        /\ fs'.bgs = IF Temporary(Examined) THEN fs.bgs \ {Examined}
                     ELSE fs.bgs]_vars

\* The block groups the scan has still to look at.
Ahead(f, k) == {b \in f.bgs : b.start >= k}

\* Every turn of the scan that goes on to another turn has moved the
\* key past the group it looked at, so the key grows strictly, the group
\* looked at is never looked at again, the groups still ahead become fewer
\* (the scan ends after at most as many turns as there are groups), and a
\* group that is removed starts at or past the key, which then lies beyond
\* it: removals come in strictly ascending order of start.
ScanProgress ==
  [][(pc = "cleanup_scan" /\ pc' = "cleanup_scan") =>
        /\ Ahead(fs, key) # {}
        /\ \A b \in fs.bgs : b.size > 0
        /\ key' = Examined.start + Examined.size
        /\ key' > key
        /\ Examined \notin Ahead(fs', key')
        /\ Ahead(fs', key') = Ahead(fs, key) \ {Examined}
        /\ Cardinality(Ahead(fs', key')) < Cardinality(Ahead(fs, key))
        /\ \A b \in fs.bgs \ fs'.bgs :
             /\ b.start >= key
             /\ b.start < key'
             /\ \A d \in Ahead(fs', key') : d.start > b.start]_vars

\* C32: the scan of cleanup_temp_chunks terminates (it always reaches its
\* out: label), and every turn moves the key strictly forward, looks at a
\* group not looked at before, and removes groups in strictly ascending
\* order of start.
C32_ScanTerminates ==
  /\ ScanProgress
  /\ (pc = "cleanup_scan") ~> (pc = "cleanup_commit")

\* The scan has looked at four groups, removed the first two of them (the
\* bootstrap groups), kept the two behind them, and found nothing further.
C32_Witness ==
  /\ pc = "cleanup_commit"
  /\ cleanErr = 0
  /\ "remove_group" \in pending
  /\ Cardinality(fs.bgs) = 2
  /\ \A b \in fs.bgs : b.start > SystemGroupSize
  /\ \E b \in fs.bgs : key = b.start + b.size
  /\ Ahead(fs, key) = {}

\* C33 as stated: when the tree search or the removal of a temporary group
\* failed inside cleanup_temp_chunks, the function returns that code, mkfs
\* ends with OSError of that code, and the file system is not finalized,
\* whatever the closing commit of the cleaner returned.
C33_Claim ==
  (/\ cleanErr # 0
   /\ pc \in {"capture", "out_ctree", "out_close", "out_free", "return",
              "done"}) =>
     /\ failed.stage = "cleanup"
     /\ failed.code = cleanErr
     /\ fs.finalize_on_close = 0
     /\ pc = "done" =>
          /\ outcome.kind = "OSError"
          /\ outcome.errno = -cleanErr

\* What the code does instead: the result of the closing commit is the only
\* thing cleanup_temp_chunks returns after the scan, so a failed scan whose
\* commit succeeds goes on to finalize.
C33_CommitDecides ==
  [][pc = "cleanup_commit" =>
       \/ pc' = "capture" /\ ret' = 0 /\ failed' = failed
       \/ /\ pc' = "out_ctree"
          /\ ret' \in CommitResults \ {0}
          /\ failed'.stage = "cleanup"]_vars

\* What C34 asks of one walk w of __recow_root over the leaves lv under the
\* transaction t, when library call number c (0: none) returns err.
WalkAsClaimed(lv, t, c, err, w) ==
  LET stale == {k \in DOMAIN lv : lv[k] # t}
      seen == {w.visited[m] : m \in DOMAIN w.visited}
      done == {w.cowed[m] : m \in DOMAIN w.cowed}
  IN /\ w.calls <= MaxCalls
     /\ \A m \in DOMAIN w.visited : w.visited[m] = m
     /\ \A m \in DOMAIN w.cowed :
          \A q \in DOMAIN w.cowed : m < q => w.cowed[m] < w.cowed[q]
     /\ done \subseteq stale \cap seen
     /\ w.leaves = [k \in DOMAIN lv |-> IF k \in done THEN t ELSE lv[k]]
     /\ w.ret \in {0, err}
     /\ w.ret = 0 =>
          /\ c = 0 \/ c > w.calls
          /\ seen = DOMAIN lv
          /\ done = stale
          /\ w.leaves = recow_root(lv, t)
     /\ w.ret # 0 =>
          /\ w.calls = c
          /\ \A k \in (stale \cap seen) \ done : k = Len(w.visited)
          /\ \A k \in DOMAIN lv : k \notin seen => w.leaves[k] = lv[k]

\* C34: for every tree recow_roots is about to walk, a global root with any
\* of its leaves already rewritten in this transaction, and for every
\* library call that
\* may fail, __recow_root ends after a bounded number of calls, visits the
\* leaves in key order, rewrites each visited leaf whose generation is not
\* the transaction's exactly once and no other leaf, and returns the first
\* negative result without a further call; a failed recow_roots leaves its
\* code in ret.
C34_RecowRootWalk ==
  /\ pc = "recow" =>
       \A r \in {RecowOrder[n] : n \in DOMAIN RecowOrder} :
         \A d \in DirtySets(r, fs.leaves[r]) :
           \A c \in 0 .. MaxCalls + 1, err \in TreeOpResults \ {0} :
             LET lv == Dirtied(fs.leaves[r], d, transid)
             IN WalkAsClaimed(lv, transid, c, err,
                              recow_root_calls(lv, transid, c, err))
  /\ (failed.at = "recow" /\ pc = "out_ctree") =>
       /\ ret \in TreeOpResults \ {0}
       /\ failed.code = ret
       /\ \A r \in TreeNames : \A k \in DOMAIN fs.leaves[r] :
            fs.leaves[r][k] <= transid

\* recow_roots has failed in the walk of the fs tree after the first leaf
\* was rewritten: the second leaf still has its old generation, and no
\* later tree was touched.
C34_Witness ==
  /\ pc = "out_ctree"
  /\ failed.at = "recow"
  /\ fs.leaves["fs"][1] = transid
  /\ fs.leaves["fs"][2] < transid
  /\ \A k \in DOMAIN fs.leaves["chunk"] : fs.leaves["chunk"][k] < transid
  /\ "recow_partial" \in pending

\* C35 as stated: system_allocs is 1 only while create_metadata_block_groups
\* runs (between the start of its transaction and its return); wherever
\* else control stands, close_ctree included, the flag is 0.
C35_Claim ==
  pc \notin {"meta_chunk", "meta_remap", "meta_commit"} =>
    fs.system_allocs = 0

\* What the code does: the flag is set when the metadata step starts its
\* transaction and cleared only on the way to its commit; after a failed
\* chunk allocation or block group creation of that step it stays 1 up to
\* the return of mkfs.
C35_FlagAfterError ==
  /\ fs.system_allocs \in {0, 1}
  /\ (fs.system_allocs = 1
      /\ pc \notin {"meta_chunk", "meta_remap", "meta_commit"}) =>
       /\ failed.stage = "metadata"
       /\ failed.at \in {"meta_chunk", "meta_remap"}
  /\ (failed.stage = "metadata"
      /\ failed.at \in {"meta_chunk", "meta_remap"}) =>
       fs.system_allocs = 1

\* The steps that allocate a chunk and create its block group.
ChunkSteps ==
  {"meta_chunk", "meta_remap", "data_groups", "raid_system", "raid_metadata",
   "raid_data"}

\* C36 as stated: a step that creates no block group (the chunk allocation
\* or btrfs_make_block_group failed) leaves the ledger as it was.
C36_Claim ==
  [][(pc \in ChunkSteps /\ fs'.bgs = fs.bgs) =>
        allocation' = allocation]_vars

\* What the code does: only the mixed branch of the metadata step tests the
\* result of btrfs_make_block_group before it books the chunk; every other
\* step books the chunk as soon as it is allocated, so after a failed
\* creation one entry is larger by the chunk's size.
C36_BookedOnAllocation ==
  [][(pc \in ChunkSteps /\ fs'.bgs = fs.bgs /\ allocation' # allocation) =>
        /\ ret' \in MakeBlockGroupResults \ {0}
        /\ pc' = "out_ctree"
        /\ ~(pc = "meta_chunk" /\ MIXED_GROUPS \in incompat_flags)
        /\ \E e \in DOMAIN allocation, size \in ChunkSizes :
             allocation' = [allocation EXCEPT ![e] = @ + size]]_vars

\* C37 as stated: the file system make_btrfs wrote carries BIG_METADATA if
\* and only if its configured node size exceeds the page size.
C37_Claim ==
  fs.superblock => (BIG_METADATA \in fs.features <=> fs.nodesize > PageSize)

\* What the code does: the flag follows the node size the caller passed,
\* which in mixed mode is not the node size configured.
C37_FlagFromArgument ==
  fs.superblock =>
    /\ BIG_METADATA \in fs.features <=> args.nodesize > PageSize
    /\ fs.nodesize = IF args.mixed THEN args.sectorsize ELSE args.nodesize
    /\ ~args.mixed =>
         (BIG_METADATA \in fs.features <=> fs.nodesize > PageSize)

\* create_one_raid_group took its unrecognized-type branch.
UnrecognizedTaken ==
  /\ failed.stage = "raid_groups"
  /\ failed.code = -EINVAL

\* C38 as stated: whatever the profile words, every group create_raid_groups
\* asks for has the type mask DATA, METADATA, SYSTEM or METADATA|DATA, and
\* the unrecognized-type branch of create_one_raid_group is never taken.
C38_Claim ==
  /\ (pc \in {"raid_system", "raid_metadata", "raid_data"} /\ RaidRequested)
       => RecognizedType(RaidRequest \cap BTRFS_BLOCK_GROUP_TYPE_MASK)
  /\ ~UnrecognizedTaken

\* What the code guarantees: the branch is taken only when a profile word
\* carries a block group type bit, and then the chunk of the refused group
\* has been allocated already.
C38_OnlyWithTypeBits ==
  /\ ((meta_profile \cup data_prof) \cap BTRFS_BLOCK_GROUP_TYPE_MASK = {}) =>
       /\ ~UnrecognizedTaken
       /\ (pc \in {"raid_system", "raid_metadata", "raid_data"}
           /\ RaidRequested)
            => RecognizedType(RaidRequest \cap BTRFS_BLOCK_GROUP_TYPE_MASK)
  /\ (UnrecognizedTaken /\ pc = "done") => outcome.kind = "OSError"

====
